---- MODULE Spec2Model ----
(***************************************************************************)
(* Airline market analysis: the analytics pipeline of the repository.      *)
(*                                                                         *)
(*   data_processor.py      DataProcessor      (cleaning, features)        *)
(*   insights_generator.py  InsightsGenerator  (insight sections, the      *)
(*                                              narrative adapter)         *)
(*   app.py                 create_demand_heatmap (the six pivoted views)  *)
(*                                                                         *)
(* A pandas DataFrame is a record [columns, rows]: the set of its column   *)
(* names and the sequence of its rows.  Every row carries every field of   *)
(* the model; a field whose column is absent holds the blank value and is  *)
(* never read by an operator that first tests the column, exactly as the   *)
(* code tests `'x' in df.columns`.  A Python exception is the record       *)
(* [exc |-> <type>].                                                       *)
(*                                                                         *)
(* Numbers: prices are whole currency units, NaN is the marker -1.  A      *)
(* timestamp is the number of hours since Monday 2024-01-01 00:00, so      *)
(* that its day name, hour of day and ISO week are computed from it.       *)
(* Aggregates that pandas holds as floats (means, ratios) are exact        *)
(* fractions [num, den]; the fraction 0/0 is the float NaN.                *)
(***************************************************************************)
EXTENDS Integers, Sequences, FiniteSets, TLC

VARIABLES
    openai_api_key,   \* InsightsGenerator.openai_api_key: TRUE iff a credential is configured
    raw_data,         \* the raw batch the data source hands to the pipeline
    processed_data,   \* DataProcessor.processed_data: None or the last stored table
    requests_sent,    \* requests posted to the narrative service by the last generate_insights
    last              \* the last call: [op, arg, arg_after, reply, ret], its argument before
                      \* and after, the service's reply, and what it returned or raised

vars == <<openai_api_key, raw_data, processed_data, requests_sent, last>>

-----------------------------------------------------------------------------
(* Bounds of the model *)

\* longest raw batch drawn from the record pool
MaxBatch == 2

-----------------------------------------------------------------------------
(* Values *)

NaN == -1
BadDate == -2
NaT == -1
NoneStr == "nan"
None == [none |-> TRUE]

Exc(e) == [exc |-> e]
IsExc(x) == "exc" \in DOMAIN x
IsNone(x) == "none" \in DOMAIN x
IsTable(x) == "rows" \in DOMAIN x

\* a Python dict built key by key: its items, a sequence of <<key, value>>
Dict(items) == [items |-> items]
Keys(d) == {d.items[i][1] : i \in 1..Len(d.items)}
Get(d, k) == d.items[CHOOSE i \in 1..Len(d.items) : d.items[i][1] = k][2]

\* exact fractions standing for floats
Frac(n, d) == [num |-> n, den |-> d]
FracNaN == Frac(0, 0)
FracZero == Frac(0, 1)
IsFracNaN(f) == f.den = 0
FracEq(f, g) == f.den # 0 /\ g.den # 0 /\ f.num * g.den = g.num * f.den
FracLt(f, g) == f.den # 0 /\ g.den # 0 /\ f.num * g.den < g.num * f.den
FracGt(f, g) == FracLt(g, f)

RECURSIVE SumSeq(_)
SumSeq(s) == IF s = <<>> THEN 0 ELSE Head(s) + SumSeq(Tail(s))

RECURSIVE SortedSeq(_)
\* the members of a finite set of integers in ascending order
SortedSeq(S) ==
    IF S = {} THEN <<>>
    ELSE LET m == CHOOSE x \in S : \A y \in S : x <= y
         IN <<m>> \o SortedSeq(S \ {m})

RECURSIVE SortInts(_)
\* a sequence of integers in ascending order, repetitions kept
SortInts(s) ==
    IF s = <<>> THEN <<>>
    ELSE LET i == CHOOSE j \in 1..Len(s) : \A k \in 1..Len(s) : s[j] <= s[k]
         IN <<s[i]>> \o SortInts(SubSeq(s, 1, i - 1) \o SubSeq(s, i + 1, Len(s)))

Range(s) == {s[i] : i \in 1..Len(s)}

\* the sequence f as an explicit tuple
Tup(f) == f \o <<>>

MapSeq(s, F(_)) == Tup([i \in 1..Len(s) |-> F(s[i])])

\* the members of s at the positions in I, in order
AtPositions(s, I) ==
    Tup([k \in 1..Cardinality(I) |->
           s[CHOOSE i \in I : Cardinality({ j \in I : j <= i }) = k]])

\* s without the members that repeat an earlier one
FirstOccurrences(s) ==
    AtPositions(s, { i \in 1..Len(s) : \A j \in 1..(i - 1) : s[j] # s[i] })

\* the position of x in the sequence s
Pos(s, x) == CHOOSE i \in 1..Len(s) : s[i] = x

Count(rows, P(_)) == Cardinality({i \in 1..Len(rows) : P(rows[i])})

-----------------------------------------------------------------------------
(* Calendar: pandas .dt accessors on a timestamp *)

HoursPerDay == 24
DaysPerWeek == 7

DayNames == <<"Monday", "Tuesday", "Wednesday", "Thursday", "Friday", "Saturday", "Sunday">>

\* Series.dt.day_name(): NaT gives a missing name
day_name(t) == IF t = NaT THEN NoneStr ELSE DayNames[((t \div HoursPerDay) % DaysPerWeek) + 1]

\* Series.dt.hour
dt_hour(t) == IF t = NaT THEN NaN ELSE t % HoursPerDay

\* Series.dt.isocalendar().week: 2024-01-01 opens ISO week 1
iso_week(t) == IF t = NaT THEN NaN ELSE (t \div (HoursPerDay * DaysPerWeek)) + 1

\* the lengths of the months of 2024
MonthLengths == <<31, 29, 31, 30, 31, 30, 31, 31, 30, 31, 30, 31>>

RECURSIVE MonthFrom(_, _)
MonthFrom(d, m) ==
    IF m >= Len(MonthLengths) \/ d < MonthLengths[m] THEN m
    ELSE MonthFrom(d - MonthLengths[m], m + 1)

\* Series.dt.month
dt_month(t) == IF t = NaT THEN NaN ELSE MonthFrom(t \div HoursPerDay, 1)

\* the month -> season mapping of _add_features
season_of(m) ==
    IF m = NaN THEN NoneStr
    ELSE IF m \in {12, 1, 2} THEN "Summer"
    ELSE IF m \in {3, 4, 5} THEN "Autumn"
    ELSE IF m \in {6, 7, 8} THEN "Winter"
    ELSE "Spring"

-----------------------------------------------------------------------------
(* Raw flight records and the tables built from them *)

RawColumns ==
    {"flight_number", "airline", "route", "price", "date", "departure_time",
     "arrival_time", "hour", "day_of_week", "total_seats", "available_seats",
     "demand_score"}

\* a row in which every column is missing
BlankRow ==
    [flight_number |-> NaN, airline |-> NoneStr, route |-> NoneStr, price |-> NaN,
     date |-> NaT, departure_time |-> NaT, arrival_time |-> NaT,
     hour |-> NaN, day_of_week |-> NoneStr, month |-> NaN, season |-> NoneStr,
     price_category |-> NoneStr, total_seats |-> NaN, available_seats |-> NaN,
     occupancy_rate |-> FracNaN, demand_level |-> NoneStr, route_distance |-> NaN,
     price_per_km |-> FracNaN, peak_hour |-> NoneStr, is_weekend |-> FALSE,
     demand_score |-> NaN, week |-> NaN]

\* the flight record the scraper's generator builds (data_scraper.py): the date is
\* the day at midnight, the departure is that day at `hr`, hour and day_of_week
\* are given with the record
flight_record(fn, airline, route, price, day, hr, total, avail, score) ==
    [BlankRow EXCEPT
        !.flight_number = fn, !.airline = airline, !.route = route, !.price = price,
        !.date = IF day = BadDate THEN BadDate ELSE day * HoursPerDay,
        !.departure_time = IF day = BadDate THEN NaT ELSE day * HoursPerDay + hr,
        !.arrival_time = IF day = BadDate THEN NaT ELSE day * HoursPerDay + hr + 1,
        !.hour = hr,
        !.day_of_week = IF day = BadDate THEN NoneStr ELSE day_name(day * HoursPerDay),
        !.total_seats = total, !.available_seats = avail, !.demand_score = score]

\* The records the batches are drawn from.  Prices are even, so that the median
\* of two known prices is a whole number; demand scores are in hundredths.
RecordPool ==
    << flight_record(1, "Qantas",  "SYD-MEL", 300, 0, 9,  200, 50,  120),
       flight_record(2, "Jetstar", "SYD-MEL", 500, 1, 18, 180, 180, 90),
       flight_record(3, "Qantas",  "SYD-BNE", 200, 5, 9,  150, 15,  150),
       flight_record(4, NoneStr,   "SYD-BNE", NaN, 4, 7,  160, 40,  100),
       flight_record(5, "Jetstar", "SYD-HBA", 1200, 6, 0, 150, 0,   80),
       flight_record(6, "Jetstar", "SYD-MEL", 400, BadDate, 12, 170, 60, 110) >>

\* a record restricted to the fields the batch carries
Project(r, cols) ==
    [f \in DOMAIN BlankRow |-> IF f \in cols THEN r[f] ELSE BlankRow[f]]

\* The shapes of record the data source hands over: the scraper's generated
\* record, that record without one optional group of fields, and the record
\* parsed from the aviation-stack response (no route, no seats, no hour, no score).
ColumnSets ==
    { RawColumns,
      RawColumns \ {"date"},
      RawColumns \ {"date", "day_of_week"},
      RawColumns \ {"day_of_week"},
      RawColumns \ {"hour"},
      RawColumns \ {"hour", "departure_time", "arrival_time"},
      RawColumns \ {"demand_score"},
      RawColumns \ {"total_seats", "available_seats"},
      RawColumns \ {"route"},
      {"flight_number", "airline", "departure_time", "arrival_time", "price", "date"} }

\* index sequences 1 <= i1 <= i2 <= ... into the pool, of length n
RECURSIVE IndexSeqs(_, _)
IndexSeqs(n, lo) ==
    IF n = 0 THEN {<<>>}
    ELSE UNION { { <<i>> \o t : t \in IndexSeqs(n - 1, i) } : i \in lo..Len(RecordPool) }

EmptyBatch == [columns |-> {}, rows |-> <<>>]

\* the list of the pool records ix, in the shape c
batch_of(c, ix) ==
    [columns |-> c, rows |-> Tup([i \in 1..Len(ix) |-> Project(RecordPool[ix[i]], c)])]

\* the batches every shape is tried on: two weekday flights, a weekday and a
\* Saturday flight
ShapeBatches == { <<1, 2>>, <<1, 3>> }

\* number of ordinary fares in the batch that has one extreme fare: among fewer
\* than eleven prices none lies more than three deviations from their mean
CrowdSize == 10

\* the i-th ordinary fare
crowd_record(i) ==
    flight_record(100 + i, IF i % 2 = 0 THEN "Qantas" ELSE "Jetstar",
                  IF i % 3 = 0 THEN "SYD-MEL" ELSE "SYD-BNE",
                  IF i % 2 = 0 THEN 120 ELSE 100, i % DaysPerWeek, 9, 200, 50, 100)

\* the ordinary fares followed by one extreme fare
OutlierBatch ==
    [columns |-> RawColumns,
     rows |-> Tup([i \in 1..(CrowdSize + 1) |->
                     IF i <= CrowdSize THEN crowd_record(i)
                     ELSE flight_record(100, "Jetstar", "SYD-HBA", 1000, 0, 6, 150, 0, 80)])]

\* a record sent twice, another record, and a record without price and airline
DuplicateBatch == batch_of(RawColumns, <<1, 1, 2, 4>>)

\* the raw batches: the empty list, every list of 1..MaxBatch pool records in the
\* scraper's shape (a record may occur twice: an exact duplicate), the shape
\* batches in every shape, the batch with an extreme fare and the batch with a
\* duplicate next to a record without price
RawBatches ==
    {EmptyBatch, OutlierBatch, DuplicateBatch}
    \cup { batch_of(RawColumns, ix) : ix \in UNION { IndexSeqs(n, 1) : n \in 1..MaxBatch } }
    \cup { batch_of(c, ix) : c \in ColumnSets, ix \in ShapeBatches }

\* a batch with a date that does not parse
MalformedBatch == batch_of(RawColumns, <<6>>)

\* two records, the second with a departure time that does not parse
BadDepartureBatch ==
    [columns |-> RawColumns,
     rows |-> <<RecordPool[1], [RecordPool[2] EXCEPT !.departure_time = BadDate]>>]

\* two records, the first with an arrival time that does not parse
BadArrivalBatch ==
    [columns |-> RawColumns,
     rows |-> <<[RecordPool[1] EXCEPT !.arrival_time = BadDate], RecordPool[3]>>]

\* pd.DataFrame(): no columns, no rows
EmptyDataFrame == [columns |-> {}, rows |-> <<>>]

\* DataFrame.empty
empty(df) == df.rows = <<>> \/ df.columns = {}

has(df, col) == col \in df.columns

Column(df, col) == Tup([i \in 1..Len(df.rows) |-> df.rows[i][col]])

\* df[mask]: the rows that satisfy P, in order
Filter(rows, P(_)) == SelectSeq(rows, P)

-----------------------------------------------------------------------------
(* DataProcessor (data_processor.py) *)

\* DataFrame.drop_duplicates(): the first occurrence of each row is kept
drop_duplicates(rows) == FirstOccurrences(rows)

\* a conversion that turns a value that is no date into NaT instead of raising
unparseable_coerced(df, col) == FALSE

\* pd.to_datetime raises on a value that is no date
unparseable(df, col) == has(df, col) /\ \E i \in 1..Len(df.rows) : df.rows[i][col] = BadDate

\* a median that takes the lower of the two middle values
median_low(xs) ==
    LET known == SortInts(SelectSeq(xs, LAMBDA x : x # NaN))
        n == Len(known)
    IN IF n = 0 THEN NaN ELSE known[(n + 1) \div 2]

\* Series.median(): NaN is skipped; an empty series has median NaN
median(xs) ==
    LET known == SortInts(SelectSeq(xs, LAMBDA x : x # NaN))
        n == Len(known)
    IN IF n = 0 THEN NaN
       ELSE IF n % 2 = 1 THEN known[(n + 1) \div 2]
       ELSE (known[n \div 2] + known[(n \div 2) + 1]) \div 2

\* a fill that overwrites the known values too
fillna_overwriting(x, v) == v

\* Series.fillna(v)
fillna(x, v) == IF x = NaN THEN v ELSE x

fillna_str(x, v) == IF x = NoneStr THEN v ELSE x

\* sum of the squared deviations of n*x from the sum: n^2 (n-1) times the sample variance
ScaledSquares(xs) ==
    LET n == Len(xs)
        S == SumSeq(xs)
    IN SumSeq([i \in 1..n |-> (n * xs[i] - S) * (n * xs[i] - S)])

\* the band four deviations wide
within_4_std(p, xs) ==
    LET known == SelectSeq(xs, LAMBDA x : x # NaN)
        n == Len(known)
        S == SumSeq(known)
    IN /\ p # NaN
       /\ n >= 2
       /\ (n - 1) * (n * p - S) * (n * p - S) <= 16 * ScaledSquares(known)

\* (p >= mean - 3*std) & (p <= mean + 3*std), mean and std = Series.mean() and
\* Series.std() (ddof 1) of the known prices.  With fewer than two known prices
\* std is NaN and both comparisons are False; a NaN price compares False too.
within_3_std(p, xs) ==
    LET known == SelectSeq(xs, LAMBDA x : x # NaN)
        n == Len(known)
        S == SumSeq(known)
    IN /\ p # NaN
       /\ n >= 2
       /\ (n - 1) * (n * p - S) * (n * p - S) <= 9 * ScaledSquares(known)

_clean_data(df) ==
    LET dedup == drop_duplicates(df.rows)
        d1 == [df EXCEPT !.rows = dedup]
    IN IF unparseable(d1, "date") \/ unparseable(d1, "departure_time")
            \/ unparseable(d1, "arrival_time")
       THEN Exc("ValueError")
       ELSE IF ~has(d1, "price") \/ ~has(d1, "airline") THEN Exc("KeyError")
       ELSE LET med == median(Column(d1, "price"))
                filled == [i \in 1..Len(dedup) |->
                             [dedup[i] EXCEPT !.price = fillna(@, med),
                                              !.airline = fillna_str(@, "Unknown")]]
                prices == [i \in 1..Len(filled) |-> filled[i].price]
            IN [d1 EXCEPT !.rows = Filter(filled, LAMBDA r : within_3_std(r.price, prices))]

\* pd.cut(x, bins, labels): the label of the right-closed interval
\* (bins[i], bins[i+1]] that holds x; no label (NaN) outside every interval
cut(x, bins, labels) ==
    IF x = NaN \/ ~\E i \in 1..Len(labels) : bins[i] < x /\ x <= bins[i + 1]
    THEN NoneStr
    ELSE labels[CHOOSE i \in 1..Len(labels) : bins[i] < x /\ x <= bins[i + 1]]

\* pd.cut on a fraction, the bin edges given as fractions
cut_frac(x, bins, labels) ==
    IF IsFracNaN(x) \/ ~\E i \in 1..Len(labels) :
            FracLt(bins[i], x) /\ ~FracGt(x, bins[i + 1])
    THEN NoneStr
    ELSE labels[CHOOSE i \in 1..Len(labels) :
            FracLt(bins[i], x) /\ ~FracGt(x, bins[i + 1])]

PriceBins == <<0, 200, 400, 600, 1000>>
PriceLabels == <<"Budget", "Economy", "Premium", "Luxury">>
OccupancyBins == <<Frac(0, 1), Frac(1, 2), Frac(7, 10), Frac(9, 10), Frac(1, 1)>>
DemandLabels == <<"Low", "Medium", "High", "Very High">>

\* the routes of _get_route_distances and their distances in km
RouteDistanceTable ==
    << <<"SYD-MEL", 713>>, <<"MEL-SYD", 713>>, <<"SYD-BNE", 732>>, <<"BNE-SYD", 732>>,
       <<"SYD-PER", 3291>>, <<"PER-SYD", 3291>>, <<"SYD-ADL", 1165>>, <<"ADL-SYD", 1165>>,
       <<"SYD-CBR", 244>>, <<"CBR-SYD", 244>>, <<"MEL-BNE", 1370>>, <<"BNE-MEL", 1370>>,
       <<"MEL-PER", 2708>>, <<"PER-MEL", 2708>>, <<"MEL-ADL", 640>>, <<"ADL-MEL", 640>>,
       <<"BNE-PER", 3605>>, <<"PER-BNE", 3605>>, <<"BNE-ADL", 1600>>, <<"ADL-BNE", 1600>>,
       <<"PER-ADL", 2125>>, <<"ADL-PER", 2125>> >>

\* Series.map(dict): a key that is not in the dict maps to NaN
_get_route_distances(route) ==
    IF \E i \in 1..Len(RouteDistanceTable) : RouteDistanceTable[i][1] = route
    THEN RouteDistanceTable[CHOOSE i \in 1..Len(RouteDistanceTable) :
                                RouteDistanceTable[i][1] = route][2]
    ELSE NaN

\* float division by a column that may hold NaN
divide(a, b) == IF a = NaN \/ b = NaN THEN FracNaN ELSE Frac(a, b)

is_peak(x) == (7 <= x /\ x <= 9) \/ (17 <= x /\ x <= 19)

_add_features(df) ==
    LET c0 == df.columns
        addDay == ~has(df, "day_of_week") /\ has(df, "date")
        addHour == ~has(df, "hour") /\ has(df, "departure_time")
        addMonth == has(df, "date")
        addOcc == has(df, "available_seats") /\ has(df, "total_seats")
        feat(r) ==
            LET occ == IF r.total_seats = NaN \/ r.available_seats = NaN THEN FracNaN
                       ELSE Frac(r.total_seats - r.available_seats, r.total_seats)
            IN [r EXCEPT
                  !.day_of_week = IF addDay THEN day_name(r.date) ELSE @,
                  !.hour = IF addHour THEN dt_hour(r.departure_time) ELSE @,
                  !.month = IF addMonth THEN dt_month(r.date) ELSE @,
                  !.season = IF addMonth THEN season_of(dt_month(r.date)) ELSE @,
                  !.price_category = cut(r.price, PriceBins, PriceLabels),
                  !.occupancy_rate = IF addOcc THEN occ ELSE @,
                  !.demand_level = IF addOcc THEN cut_frac(occ, OccupancyBins, DemandLabels)
                                   ELSE @,
                  !.route_distance = _get_route_distances(r.route)]
    IN IF ~has(df, "route") THEN Exc("KeyError")
       ELSE [columns |-> c0
                \cup (IF addDay THEN {"day_of_week"} ELSE {})
                \cup (IF addHour THEN {"hour"} ELSE {})
                \cup (IF addMonth THEN {"month", "season"} ELSE {})
                \cup {"price_category"}
                \cup (IF addOcc THEN {"occupancy_rate", "demand_level"} ELSE {})
                \cup {"route_distance"},
             rows |-> Tup([i \in 1..Len(df.rows) |-> feat(df.rows[i])])]

_calculate_metrics(df) ==
    LET perKm == has(df, "route_distance")
        peak == has(df, "hour")
        wkend == has(df, "day_of_week")
        met(r) ==
            [r EXCEPT
               !.price_per_km = IF perKm THEN divide(r.price, r.route_distance) ELSE @,
               !.peak_hour = IF peak THEN (IF is_peak(r.hour) THEN "Peak" ELSE "Off-Peak")
                             ELSE @,
               !.is_weekend = IF wkend THEN r.day_of_week \in {"Saturday", "Sunday"} ELSE @]
    IN [columns |-> df.columns
            \cup (IF perKm THEN {"price_per_km"} ELSE {})
            \cup (IF peak THEN {"peak_hour"} ELSE {})
            \cup (IF wkend THEN {"is_weekend"} ELSE {}),
        rows |-> Tup([i \in 1..Len(df.rows) |-> met(df.rows[i])])]

\* the processing without the guard for an empty batch
process_flight_data_unguarded(raw) ==
    LET cleaned == _clean_data(raw)
    IN IF IsExc(cleaned) THEN cleaned
       ELSE LET featured == _add_features(cleaned)
            IN IF IsExc(featured) THEN featured
               ELSE _calculate_metrics(featured)

\* what process_flight_data returns: a table, or the exception it raises
process_flight_data(raw) ==
    IF raw.rows = <<>> THEN EmptyDataFrame
    ELSE LET cleaned == _clean_data(raw)
         IN IF IsExc(cleaned) THEN cleaned
            ELSE LET featured == _add_features(cleaned)
                 IN IF IsExc(featured) THEN featured
                    ELSE _calculate_metrics(featured)

\* a call that clears the stored table before it processes the batch
stored_after_cleared(raw, before) ==
    LET ret == process_flight_data(raw)
    IN IF raw.rows = <<>> THEN before ELSE IF IsExc(ret) THEN None ELSE ret

\* self.processed_data after process_flight_data(raw): assigned only on the path
\* that reaches line 26
stored_after(raw, before) ==
    LET ret == process_flight_data(raw)
    IN IF raw.rows = <<>> \/ IsExc(ret) THEN before ELSE ret

-----------------------------------------------------------------------------
(* The sample generator of the processor (_generate_sample_data) *)

\* dates generated, one a day from now on: the code's range has 30 periods, the
\* model generates the first SampleDays of them (a whole week)
SampleDays == 7
\* flights generated for each date (the code draws 5..10)
FlightsPerDay == 1
\* number of random sources tried
SampleSeeds == 1

\* the instants datetime.now() is drawn from: Monday 10:00 and Friday 15:00
SampleStarts == <<10, 4 * HoursPerDay + 15>>

SampleRoutes == <<"SYD-MEL", "MEL-SYD", "SYD-BNE", "BNE-SYD", "MEL-BNE", "BNE-MEL">>
SampleBasePrices == <<300, 300, 350, 350, 400, 400>>
SampleAirlines == <<"Qantas", "Virgin Australia", "Jetstar", "Rex">>

\* the random source: the draw of `random` for flight k of date d, in 0..m-1
rnd(seed, d, k, salt, m) == (seed * 7 + d * 13 + k * 5 + salt * 3) % m

sample_record(seed, now, d, k) ==
    LET date == now + d * HoursPerDay
        hour == 6 + rnd(seed, d, k, 1, 17)
        departure == (date \div HoursPerDay) * HoursPerDay + hour
        ri == 1 + rnd(seed, d, k, 2, Len(SampleRoutes))
        price == SampleBasePrices[ri] + rnd(seed, d, k, 3, 151) - 50
        total == 150 + rnd(seed, d, k, 4, 151)
        avail == 10 + rnd(seed, d, k, 5, total - 9)
        occ == Frac(total - avail, total)
        weekend == ((date \div HoursPerDay) % DaysPerWeek) >= 5
        wmul == IF weekend THEN 13 ELSE 10
        pmul == IF is_peak(hour) THEN 14 ELSE 10
        month == dt_month(date)
    IN [BlankRow EXCEPT
          !.flight_number = 100 + rnd(seed, d, k, 6, 9900),
          !.airline = SampleAirlines[1 + rnd(seed, d, k, 7, Len(SampleAirlines))],
          !.route = SampleRoutes[ri],
          !.departure_time = departure,
          !.arrival_time = departure + 1 + rnd(seed, d, k, 8, 4),
          !.price = price,
          !.date = date,
          !.day_of_week = day_name(date),
          !.hour = hour,
          !.month = month,
          !.season = <<"Summer", "Autumn", "Winter", "Spring">>[((month % 12) \div 3) + 1],
          !.total_seats = total,
          !.available_seats = avail,
          !.occupancy_rate = occ,
          !.demand_level = IF FracGt(occ, Frac(7, 10)) THEN "High"
                           ELSE IF FracGt(occ, Frac(1, 2)) THEN "Medium" ELSE "Low",
          !.peak_hour = IF is_peak(hour) THEN "Peak" ELSE "Off-Peak",
          !.is_weekend = weekend,
          !.demand_score = (wmul * pmul * (1000 - price) + 500) \div 1000,
          !.price_category = IF price < 400 THEN "Economy"
                             ELSE IF price < 600 THEN "Premium" ELSE "Luxury"]

SampleColumns ==
    {"flight_number", "airline", "route", "departure_time", "arrival_time", "price",
     "date", "day_of_week", "hour", "month", "season", "total_seats", "available_seats",
     "occupancy_rate", "demand_level", "peak_hour", "is_weekend", "demand_score",
     "price_category"}

_generate_sample_data(seed, now) ==
    [columns |-> SampleColumns,
     rows |-> Tup([n \in 1..(SampleDays * FlightsPerDay) |->
                     sample_record(seed, now, (n - 1) \div FlightsPerDay,
                                   (n - 1) % FlightsPerDay)])]

\* the instant datetime.now() of the run with random source seed
now_of(seed) == SampleStarts[(seed % Len(SampleStarts)) + 1]

GeneratedSamples ==
    { _generate_sample_data(seed, now_of(seed)) : seed \in 0..(SampleSeeds - 1) }

\* get_sample_data returns the stored table itself when there is a non-empty one
returns_stored(stored) == ~IsNone(stored) /\ Len(stored.rows) > 0

\* the tables get_sample_data may return
get_sample_data(stored) ==
    IF returns_stored(stored) THEN {stored} ELSE GeneratedSamples

-----------------------------------------------------------------------------
(* DataFrame.pivot_table and the heatmap views (app.py, create_demand_heatmap) *)

\* the orders pandas sorts group keys in
AlphaDays == <<"Friday", "Monday", "Saturday", "Sunday", "Thursday", "Tuesday", "Wednesday">>
AlphaRoutes ==
    <<"ADL-BNE", "ADL-MEL", "ADL-PER", "ADL-SYD", "BNE-ADL", "BNE-MEL", "BNE-PER",
      "BNE-SYD", "CBR-SYD", "MEL-ADL", "MEL-BNE", "MEL-PER", "MEL-SYD", "PER-ADL",
      "PER-BNE", "PER-MEL", "PER-SYD", "SYD-ADL", "SYD-BNE", "SYD-CBR", "SYD-HBA",
      "SYD-MEL", "SYD-PER">>
AlphaAirlines == <<"Jetstar", "Qantas", "Rex", "Tigerair", "Unknown", "Virgin Australia">>
HoursOfDay == Tup([h \in 1..HoursPerDay |-> h - 1])
Booleans == <<FALSE, TRUE>>

\* the aggregate of one group: count of the known values, or their mean
aggregate(vals, aggfunc) ==
    LET known == SelectSeq(vals, LAMBDA x : x # NaN)
    IN IF aggfunc = "count" THEN Frac(Len(known), 1)
       ELSE IF known = <<>> THEN FracNaN
       ELSE Frac(SumSeq(known), Len(known))

\* DataFrame.pivot_table(values, index, columns, aggfunc): one row per row key
\* and one column per column key that occur (keys in sorted order, a missing key
\* forms no group); a pair of keys that no record has is a NaN cell.
\* RowOrder and ColOrder list the possible keys in sorted order.  The matrix is
\* [index, columns, cells]: the row labels, the column labels, and the cells row
\* by row.
pivot_table(rows, Val(_), RowKey(_), ColKey(_), aggfunc, RowOrder, ColOrder) ==
    LET group(rk, ck) == SelectSeq(rows, LAMBDA r : RowKey(r) = rk /\ ColKey(r) = ck)
        agg(rk, ck) == aggregate(MapSeq(group(rk, ck), Val), aggfunc)
        pairs == { <<RowKey(rows[i]), ColKey(rows[i])>> : i \in 1..Len(rows) }
        present == { p \in pairs : /\ p[1] \in Range(RowOrder)
                                   /\ p[2] \in Range(ColOrder)
                                   /\ ~IsFracNaN(agg(p[1], p[2])) }
        rowKeys == { p[1] : p \in present }
        colKeys == { p[2] : p \in present }
        index == SelectSeq(RowOrder, LAMBDA k : k \in rowKeys)
        columns == SelectSeq(ColOrder, LAMBDA k : k \in colKeys)
    IN [index |-> index, columns |-> columns,
        cells |-> Tup([i \in 1..Len(index) |-> Tup([j \in 1..Len(columns) |->
                     IF <<index[i], columns[j]>> \in present
                     THEN agg(index[i], columns[j]) ELSE FracNaN])])]

\* the cell of row label r and column label c
cell(m, r, c) == m.cells[Pos(m.index, r)][Pos(m.columns, c)]

\* DataFrame.fillna(0)
fillna0(m) ==
    [m EXCEPT !.cells = Tup([i \in 1..Len(m.index) |-> Tup([j \in 1..Len(m.columns) |->
                            IF IsFracNaN(m.cells[i][j]) THEN FracZero ELSE m.cells[i][j]])])]

\* DataFrame.reindex(labels): the rows named by labels, in that order; a label
\* the matrix does not have gets a row of NaN
reindex(m, labels) ==
    [index |-> labels, columns |-> m.columns,
     cells |-> Tup([i \in 1..Len(labels) |->
                  IF labels[i] \in Range(m.index) THEN m.cells[Pos(m.index, labels[i])]
                  ELSE Tup([j \in 1..Len(m.columns) |-> FracNaN])])]

\* DataFrame.reindex(columns=labels)
reindex_columns(m, labels) ==
    [index |-> m.index, columns |-> labels,
     cells |-> Tup([i \in 1..Len(m.index) |-> Tup([j \in 1..Len(labels) |->
                  IF labels[j] \in Range(m.columns)
                  THEN m.cells[i][Pos(m.columns, labels[j])] ELSE FracNaN])])]

day_order == DayNames

\* [day for day in day_order if day in <axis>]
days_present(axis) == SelectSeq(day_order, LAMBDA d : d \in Range(axis))

\* view 1: flight count by (day, hour)
flight_count_view(df) ==
    LET p == fillna0(pivot_table(df.rows, LAMBDA r : r.price,
                                 LAMBDA r : day_name(r.date), LAMBDA r : dt_hour(r.date),
                                 "count", AlphaDays, HoursOfDay))
    IN fillna0(reindex(p, days_present(p.index)))

\* view 2: mean price by (day, hour)
price_heatmap_view(df) ==
    LET p == fillna0(pivot_table(df.rows, LAMBDA r : r.price,
                                 LAMBDA r : day_name(r.date), LAMBDA r : dt_hour(r.date),
                                 "mean", AlphaDays, HoursOfDay))
    IN fillna0(reindex(p, days_present(p.index)))

\* view 3: mean demand score by (day, hour)
demand_score_view(df) ==
    LET p == fillna0(pivot_table(df.rows, LAMBDA r : r.demand_score,
                                 LAMBDA r : day_name(r.date), LAMBDA r : dt_hour(r.date),
                                 "mean", AlphaDays, HoursOfDay))
    IN fillna0(reindex(p, days_present(p.index)))

\* view 4 with the pivot's missing markers left in place
route_airline_view_unfilled(df) ==
    pivot_table(df.rows, LAMBDA r : r.price, LAMBDA r : r.route, LAMBDA r : r.airline,
                "count", AlphaRoutes, AlphaAirlines)

\* view 4: flight count by (route, airline)
route_airline_view(df) ==
    fillna0(fillna0(pivot_table(df.rows, LAMBDA r : r.price,
                                LAMBDA r : r.route, LAMBDA r : r.airline,
                                "count", AlphaRoutes, AlphaAirlines)))

\* view 5: mean price by (route, day)
route_day_price_view(df) ==
    LET p == fillna0(pivot_table(df.rows, LAMBDA r : r.price,
                                 LAMBDA r : r.route, LAMBDA r : day_name(r.date),
                                 "mean", AlphaRoutes, AlphaDays))
    IN fillna0(reindex_columns(p, days_present(p.columns)))

\* view 6 before its rows are renamed: flight count by (is_weekend, hour)
weekend_pivot(df) ==
    fillna0(pivot_table(df.rows, LAMBDA r : r.price,
                        LAMBDA r : r.is_weekend, LAMBDA r : r.hour,
                        "count", Booleans, HoursOfDay))

WeekendLabels == <<"Weekday", "Weekend">>

\* weekend_pivot.index = ['Weekday', 'Weekend']: the i-th row takes the i-th
\* label; pandas raises ValueError unless the matrix has exactly two rows
relabel(m, labels) ==
    IF Len(m.index) # Len(labels) THEN Exc("ValueError")
    ELSE [m EXCEPT !.index = labels]

EmptyJson == [json |-> "{}"]

\* the except branch of create_demand_heatmap: the unordered count matrix alone,
\* or '{}' when even that cannot be built
heatmap_fallback(df) ==
    IF ~has(df, "date") \/ ~has(df, "price") THEN [default |-> EmptyJson]
    ELSE [default |-> fillna0(pivot_table(df.rows, LAMBDA r : r.price,
                                 LAMBDA r : day_name(r.date), LAMBDA r : dt_hour(r.date),
                                 "count", AlphaDays, HoursOfDay))]

\* dict.get(key, default)
dict_get(d, key, default) == IF key \in Keys(d) THEN Get(d, key) ELSE default

\* list(d.keys()): the keys in insertion order
dict_keys(d) == Tup([i \in 1..Len(d.items) |-> d.items[i][1]])

\* list(heatmaps.keys())
available_views(heatmaps) == dict_keys(heatmaps)

create_demand_heatmap(df) ==
    LET dayHour == has(df, "date") /\ has(df, "hour")
        h1 == IF dayHour THEN << <<"flight_count", flight_count_view(df)>> >> ELSE <<>>
        h2 == IF dayHour THEN << <<"price_heatmap", price_heatmap_view(df)>> >> ELSE <<>>
        h3 == IF dayHour /\ has(df, "demand_score")
              THEN << <<"demand_score", demand_score_view(df)>> >> ELSE <<>>
        h4 == IF has(df, "route") /\ has(df, "airline")
              THEN << <<"route_airline", route_airline_view(df)>> >> ELSE <<>>
        routeDay == has(df, "route") /\ has(df, "date")
        \* day_order is bound in the first block only
        nameError == routeDay /\ ~dayHour
        h5 == IF routeDay THEN << <<"route_day_price", route_day_price_view(df)>> >> ELSE <<>>
        weekendHour == has(df, "is_weekend") /\ has(df, "hour")
        w == relabel(weekend_pivot(df), WeekendLabels)
        h6 == IF weekendHour THEN << <<"weekend_analysis", w>> >> ELSE <<>>
        heatmaps == Dict(h1 \o h2 \o h3 \o h4 \o h5 \o h6)
    IN IF nameError \/ (weekendHour /\ IsExc(w)) THEN heatmap_fallback(df)
       ELSE [default |-> dict_get(heatmaps, "flight_count",
                                  dict_get(heatmaps, "price_heatmap", EmptyJson)),
             options |-> heatmaps,
             available_views |-> available_views(heatmaps)]

-----------------------------------------------------------------------------
(* Grouped aggregates (pandas groupby, value_counts, sort_values, head, tail) *)

\* round(x): to the nearest whole number, a tie to the even one
round0(f) ==
    LET q == f.num \div f.den
        r == f.num % f.den
    IN IF 2 * r < f.den THEN q
       ELSE IF 2 * r > f.den THEN q + 1
       ELSE IF q % 2 = 0 THEN q ELSE q + 1

\* round(x, 2), in hundredths; NaN stays NaN
round2(f) == IF IsFracNaN(f) THEN FracNaN ELSE Frac(round0(Frac(100 * f.num, f.den)), 100)

\* Series.mean() of a column: NaN is skipped, no known value gives NaN
mean(xs) == aggregate(xs, "mean")

\* the distinct members of a sequence, in order of first appearance (Series.unique)
Distinct(s) == FirstOccurrences(s)

\* a sequence of <<key, value>> in descending order of value, equal values in
\* their given order
sort_desc(pairs, Gt(_, _)) ==
    LET n == Len(pairs)
        rank(i) == 1 + Cardinality({ j \in 1..n :
                        \/ Gt(pairs[j][2], pairs[i][2])
                        \/ (j < i /\ ~Gt(pairs[i][2], pairs[j][2])) })
    IN Tup([k \in 1..n |-> pairs[CHOOSE i \in 1..n : rank(i) = k]])

sort_asc(pairs, Gt(_, _)) == sort_desc(pairs, LAMBDA a, b : Gt(b, a))

IntGt(a, b) == a > b

head(s, n) == SubSeq(s, 1, IF Len(s) < n THEN Len(s) ELSE n)
tail(s, n) == SubSeq(s, IF Len(s) < n THEN 1 ELSE Len(s) - n + 1, Len(s))

\* df.groupby(key)[val].mean(): one <<key, mean>> per key that occurs, keys sorted
groupby_mean(rows, Key(_), Val(_), Order) ==
    LET keys == SelectSeq(Order, LAMBDA k : \E i \in 1..Len(rows) : Key(rows[i]) = k)
    IN Tup([n \in 1..Len(keys) |->
          <<keys[n], mean(MapSeq(SelectSeq(rows, LAMBDA r : Key(r) = keys[n]), Val))>>])

\* df.groupby(key).size()
groupby_size(rows, Key(_), Order) ==
    LET keys == SelectSeq(Order, LAMBDA k : \E i \in 1..Len(rows) : Key(rows[i]) = k)
    IN Tup([n \in 1..Len(keys) |-> <<keys[n], Count(rows, LAMBDA r : Key(r) = keys[n])>>])

\* Series.value_counts(): <<value, count>> by descending count, missing values
\* left out, equal counts in order of first appearance
value_counts(xs, missing) ==
    LET keys == Distinct(SelectSeq(xs, LAMBDA x : x # missing))
    IN sort_desc(Tup([n \in 1..Len(keys) |->
                    <<keys[n], Cardinality({i \in 1..Len(xs) : xs[i] = keys[n]})>>]), IntGt)

\* len(data[data['is_weekend']]) / len(data)
weekend_share(rows) == Frac(Count(rows, LAMBDA r : r.is_weekend), Len(rows))

-----------------------------------------------------------------------------
(* InsightsGenerator: the insight sections (insights_generator.py) *)

_generate_summary_insights(df) ==
    IF ~has(df, "date") THEN Exc("KeyError")
    ELSE [total_flights |-> Len(df.rows),
          average_price |-> round2(mean(Column(df, "price"))),
          popular_routes |-> head(value_counts(Column(df, "route"), NoneStr), 3),
          popular_airlines |-> head(value_counts(Column(df, "airline"), NoneStr), 3),
          price_distribution |->
             [budget |-> Count(df.rows, LAMBDA r : r.price # NaN /\ r.price < 300),
              economy |-> Count(df.rows, LAMBDA r : r.price >= 300 /\ r.price < 500),
              premium |-> Count(df.rows, LAMBDA r : r.price >= 500)]]

\* Series.std() (ddof 1) of the prices xs, held as its square: the sum of the
\* squared deviations over n - 1, which is 0/0 = NaN for a single price
std_squared(xs) ==
    LET n == Len(xs)
    IN IF n < 2 THEN FracNaN ELSE Frac(ScaledSquares(xs), n * n * (n - 1))

\* groupby('route')['price'].std().sort_values(ascending=False): one
\* <<route, std>> per route, the NaN ones last
price_std(df) ==
    LET routes == SelectSeq(AlphaRoutes, LAMBDA k : \E i \in 1..Len(df.rows) :
                                                      df.rows[i].route = k)
        prices(k) == Column([df EXCEPT !.rows = SelectSeq(df.rows, LAMBDA r : r.route = k)],
                            "price")
        pairs == Tup([n \in 1..Len(routes) |-> <<routes[n], std_squared(prices(routes[n]))>>])
    IN sort_desc(SelectSeq(pairs, LAMBDA p : ~IsFracNaN(p[2])), FracGt)
       \o SelectSeq(pairs, LAMBDA p : IsFracNaN(p[2]))

_generate_price_insights(df) ==
    LET price(r) == r.price
        day_prices == sort_desc(groupby_mean(df.rows, LAMBDA r : r.day_of_week, price,
                                             AlphaDays), FracGt)
        hour_prices == sort_desc(groupby_mean(df.rows, LAMBDA r : r.hour, price,
                                              HoursOfDay), FracGt)
        route_prices == sort_desc(groupby_mean(df.rows, LAMBDA r : r.route, price,
                                               AlphaRoutes), FracGt)
    IN Dict(
       (IF has(df, "day_of_week")
        THEN << <<"expensive_days", head(day_prices, 3)>>,
                <<"cheapest_days", tail(day_prices, 3)>> >> ELSE <<>>)
       \o (IF has(df, "hour")
           THEN << <<"expensive_hours", head(hour_prices, 3)>>,
                   <<"cheapest_hours", tail(hour_prices, 3)>> >> ELSE <<>>)
       \o << <<"airline_pricing",
               groupby_mean(df.rows, LAMBDA r : r.airline, price, AlphaAirlines)>>,
             <<"expensive_routes", head(route_prices, 3)>>,
             <<"cheapest_routes", tail(route_prices, 3)>>,
             <<"price_volatility", head(price_std(df), 5)>> >>)

_generate_demand_insights(df) ==
    LET day_demand == value_counts(Column(df, "day_of_week"), NoneStr)
        hour_demand == groupby_size(df.rows, LAMBDA r : r.hour, HoursOfDay)
    IN Dict(
       (IF has(df, "day_of_week")
        THEN << <<"busiest_days", head(day_demand, 3)>>,
                <<"quietest_days", tail(day_demand, 3)>> >> ELSE <<>>)
       \o (IF has(df, "hour")
           THEN << <<"peak_hours", head(sort_desc(hour_demand, IntGt), 5)>>,
                   <<"off_peak_hours", head(sort_asc(hour_demand, IntGt), 5)>> >> ELSE <<>>)
       \o (IF has(df, "is_weekend")
           THEN << <<"weekend_ratio", round2(weekend_share(df.rows))>> >> ELSE <<>>)
       \o << <<"airline_popularity", value_counts(Column(df, "airline"), NoneStr)>>,
             <<"route_popularity", value_counts(Column(df, "route"), NoneStr)>> >>)

\* the insight of one route
route_insight(df, route) ==
    LET route_data == SelectSeq(df.rows, LAMBDA r : r.route = route)
        base == << <<"total_flights", Len(route_data)>>,
                   <<"avg_price", round2(mean(MapSeq(route_data, LAMBDA r : r.price)))>>,
                   <<"popular_airlines",
                     head(value_counts(MapSeq(route_data, LAMBDA r : r.airline), NoneStr), 3)>>,
                   <<"peak_hours",
                     head(value_counts(MapSeq(route_data, LAMBDA r : r.hour), NaN), 3)>>,
                   <<"weekend_ratio", round2(weekend_share(route_data))>> >>
    IN IF has(df, "demand_score")
       THEN Append(base, <<"avg_demand_score",
                           round2(mean(MapSeq(route_data, LAMBDA r : r.demand_score)))>>)
       ELSE base

_generate_route_insights(df) ==
    LET routes == Distinct(SelectSeq(Column(df, "route"), LAMBDA x : x # NoneStr))
    IN IF routes # <<>> /\ (~has(df, "hour") \/ ~has(df, "is_weekend")) THEN Exc("KeyError")
       ELSE Dict([n \in 1..Len(routes) |-> <<routes[n], route_insight(df, routes[n])>>])

RECURSIVE GCD(_, _)
GCD(a, b) == IF b = 0 THEN a ELSE GCD(b, a % b)

RECURSIVE LCMSeq(_)
\* the least common multiple of the denominators of a sequence of fractions
LCMSeq(fs) ==
    IF fs = <<>> THEN 1
    ELSE LET l == LCMSeq(Tail(fs))
             d == Head(fs).den
         IN (l \div GCD(l, d)) * d

\* The slope thresholds of _calculate_trend, 0.1 = TrendNum / TrendDen
TrendNum == 1
TrendDen == 10

\* the trend with the thresholds taken inclusively
_calculate_trend_inclusive(series) ==
    LET n == Len(series)
        L == LCMSeq(series)
        Y == [i \in 1..n |-> series[i].num * (L \div series[i].den)]
        Sx == SumSeq([i \in 1..n |-> i - 1])
        Sxx == SumSeq([i \in 1..n |-> (i - 1) * (i - 1)])
        Sy == SumSeq(Y)
        Sxy == SumSeq([i \in 1..n |-> (i - 1) * Y[i]])
        num == n * Sxy - Sx * Sy
        den == L * (n * Sxx - Sx * Sx)
    IN IF n < 2 THEN "insufficient_data"
       ELSE IF TrendDen * num >= TrendNum * den THEN "increasing"
       ELSE IF TrendDen * num <= -(TrendNum * den) THEN "decreasing"
       ELSE "stable"

\* _calculate_trend(series): the least-squares slope of the values against the
\* positions 0, 1, 2, ..., compared with +-0.1.  With L the common denominator
\* and Y[i] = L * value[i], the slope of np.polyfit(x, y, 1) is
\*   (n * Sxy - Sx * Sy) / (L * (n * Sxx - Sx * Sx)).
_calculate_trend(series) ==
    LET n == Len(series)
        L == LCMSeq(series)
        Y == [i \in 1..n |-> series[i].num * (L \div series[i].den)]
        Sx == SumSeq([i \in 1..n |-> i - 1])
        Sxx == SumSeq([i \in 1..n |-> (i - 1) * (i - 1)])
        Sy == SumSeq(Y)
        Sxy == SumSeq([i \in 1..n |-> (i - 1) * Y[i]])
        num == n * Sxy - Sx * Sy
        den == L * (n * Sxx - Sx * Sx)
    IN IF n < 2 THEN "insufficient_data"
       ELSE IF TrendDen * num > TrendNum * den THEN "increasing"
       ELSE IF TrendDen * num < -(TrendNum * den) THEN "decreasing"
       ELSE "stable"

\* the dates of a table in ascending order
DatesOf(df) == SortedSeq(Range(Column(df, "date")) \ {NaT})

WeeksOf(df) == SortedSeq({iso_week(t) : t \in Range(Column(df, "date")) \ {NaT}})

_generate_trend_insights(df) ==
    IF ~has(df, "date") THEN Dict(<<>>)
    ELSE LET daily_prices == groupby_mean(df.rows, LAMBDA r : r.date,
                                          LAMBDA r : r.price, DatesOf(df))
             daily_demand == groupby_size(df.rows, LAMBDA r : r.date, DatesOf(df))
         IN Dict(
            << <<"price_trend", _calculate_trend(MapSeq(daily_prices, LAMBDA p : p[2]))>>,
               <<"demand_trend",
                 _calculate_trend(MapSeq(daily_demand, LAMBDA p : Frac(p[2], 1)))>>,
               <<"weekly_price_pattern",
                 groupby_mean(df.rows, LAMBDA r : iso_week(r.date),
                              LAMBDA r : r.price, WeeksOf(df))>> >>)

\* data['week'] = data['date'].dt.isocalendar().week: the table itself gets the column
with_week(df) ==
    IF ~has(df, "date") THEN df
    ELSE [columns |-> df.columns \cup {"week"},
          rows |-> Tup([i \in 1..Len(df.rows) |->
                          [df.rows[i] EXCEPT !.week = iso_week(df.rows[i].date)]])]

\* the thresholds of the rule-based recommendations
PriceAlert == 400
WeekendAlert == Frac(6, 10)

\* the price alert with the threshold taken inclusively
price_recommendations_inclusive(df) ==
    LET avg_price == mean(Column(df, "price"))
    IN IF ~FracLt(avg_price, Frac(PriceAlert, 1))
       THEN << [type |-> "price", title |-> "High Average Prices",
                subject |-> NoneStr, priority |-> "medium"] >>
       ELSE <<>>

\* if avg_price > 400: one entry of type price
price_recommendations(df) ==
    LET avg_price == mean(Column(df, "price"))
    IN IF FracGt(avg_price, Frac(PriceAlert, 1))
       THEN << [type |-> "price", title |-> "High Average Prices",
                subject |-> NoneStr, priority |-> "medium"] >>
       ELSE <<>>

\* the weekend entry given from a share of one half on
demand_recommendations_from_half(df) ==
    LET weekend_ratio == weekend_share(df.rows)
    IN IF has(df, "is_weekend") /\ ~FracLt(weekend_ratio, Frac(1, 2))
       THEN << [type |-> "demand", title |-> "Weekend Travel Dominance",
                subject |-> NoneStr, priority |-> "high"] >>
       ELSE <<>>

\* if 'is_weekend' in data.columns and weekend_ratio > 0.6: one entry of type demand
demand_recommendations(df) ==
    LET weekend_ratio == weekend_share(df.rows)
    IN IF has(df, "is_weekend") /\ FracGt(weekend_ratio, WeekendAlert)
       THEN << [type |-> "demand", title |-> "Weekend Travel Dominance",
                subject |-> NoneStr, priority |-> "high"] >>
       ELSE <<>>

\* the route entries taken from the cheapest routes
route_recommendations_nsmallest(df) ==
    LET route_prices == groupby_mean(df.rows, LAMBDA r : r.route, LAMBDA r : r.price,
                                     AlphaRoutes)
        expensive_routes == head(sort_asc(route_prices, FracGt), 2)
    IN Tup([n \in 1..Len(expensive_routes) |->
              [type |-> "route", title |-> "Expensive Route",
               subject |-> expensive_routes[n][1], priority |-> "medium"]])

\* route_prices.nlargest(2): one entry of type route for each
route_recommendations(df) ==
    LET route_prices == groupby_mean(df.rows, LAMBDA r : r.route, LAMBDA r : r.price,
                                     AlphaRoutes)
        expensive_routes == head(sort_desc(route_prices, FracGt), 2)
    IN Tup([n \in 1..Len(expensive_routes) |->
              [type |-> "route", title |-> "Expensive Route",
               subject |-> expensive_routes[n][1], priority |-> "medium"]])

\* the airline entry naming the first airline in alphabetical order
airline_recommendations_first(df) ==
    LET airline_prices == groupby_mean(df.rows, LAMBDA r : r.airline, LAMBDA r : r.price,
                                       AlphaAirlines)
        cheapest == head(airline_prices, 1)
    IN Tup([n \in 1..Len(cheapest) |->
              [type |-> "airline", title |-> "Best Value Airline",
               subject |-> cheapest[n][1], priority |-> "high"]])

\* airline_prices.idxmin(): one entry of type airline
airline_recommendations(df) ==
    LET airline_prices == groupby_mean(df.rows, LAMBDA r : r.airline, LAMBDA r : r.price,
                                       AlphaAirlines)
        cheapest == head(sort_asc(airline_prices, FracGt), 1)
    IN Tup([n \in 1..Len(cheapest) |->
              [type |-> "airline", title |-> "Best Value Airline",
               subject |-> cheapest[n][1], priority |-> "high"]])

_generate_recommendations(df) ==
    price_recommendations(df) \o demand_recommendations(df)
        \o route_recommendations(df) \o airline_recommendations(df)

-----------------------------------------------------------------------------
(* The narrative adapter (_get_ai_analysis) and the external service *)

\* a text, as opposed to a JSON null
Text(t) == [text |-> t]
IsText(c) == "text" \in DOMAIN c

\* the narrative the service is asked for: a JSON object with the five sections
NarrativeJson == "{\"trends\": 1, \"pricing\": 2, \"demand\": 3, \"recommendations\": 4, \"risks\": 5}"

\* json.loads: the texts that are JSON, each with the value it denotes
JsonValues ==
    << <<NarrativeJson,
         [trends |-> 1, pricing |-> 2, demand |-> 3, recommendations |-> 4, risks |-> 5]>>,
       <<"{\"summary\": \"flat\"}", [summary |-> "flat"]>> >>

\* json.loads(s): TypeError unless s is a text, JSONDecodeError unless it is JSON
json_loads(c) ==
    IF ~IsText(c) THEN Exc("TypeError")
    ELSE IF \E i \in 1..Len(JsonValues) : JsonValues[i][1] = c.text
    THEN JsonValues[CHOOSE i \in 1..Len(JsonValues) : JsonValues[i][1] = c.text][2]
    ELSE Exc("JSONDecodeError")

\* what choices[0].message.content of a response body may hold
Contents ==
    { Text(NarrativeJson), Text("{\"summary\": \"flat\"}"),
      Text("Prices are stable; demand peaks on weekends."), None }

\* What requests.post may do: raise (timeout, transport error), or answer with a
\* status and a body.  A body is no JSON at all, JSON without the
\* choices/message/content path, or JSON that has it.
Replies ==
    { [raises |-> TRUE, status |-> 0, body |-> "none", content |-> None] }
    \cup { [raises |-> FALSE, status |-> st, body |-> b, content |-> None] :
             st \in {200, 500}, b \in {"not_json", "no_content"} }
    \cup { [raises |-> FALSE, status |-> st, body |-> "content", content |-> c] :
             st \in {200, 500}, c \in Contents }

\* f"${x:.0f}" of a float: the nearest whole number, or nan
fmt0(f) == IF IsFracNaN(f) THEN NaN ELSE round0(f)

\* the deterministic mock narrative: the statistics it interpolates, and the
\* static commentary of each section named by its heading
_get_mock_ai_analysis(df) ==
    LET avg_price == IF ~empty(df) THEN mean(Column(df, "price")) ELSE Frac(350, 1)
        total_flights == IF ~empty(df) THEN Len(df.rows) ELSE 100
        weekend_ratio == IF ~empty(df) /\ has(df, "is_weekend")
                         THEN weekend_share(df.rows) ELSE FracZero
    IN [trends |-> [price_volatility |-> fmt0(avg_price),
                    market_growth |-> "static"],
        pricing |-> [average_price |-> fmt0(avg_price), pricing_strategy |-> "static"],
        demand |-> [total_volume |-> total_flights,
                    popular_routes |->
                        IF ~empty(df) THEN head(value_counts(Column(df, "route"), NoneStr), 3)
                        ELSE << <<"SYD-MEL", 25>>, <<"SYD-BNE", 20>>, <<"MEL-BNE", 15>> >>,
                    weekend_ratio |-> weekend_ratio],
        recommendations |-> "static",
        risks |-> "static",
        market_opportunities |-> "static",
        competitive_analysis |-> "static",
        financial_insights |-> "static"]

\* _prepare_data_summary reads the date column unguarded
_prepare_data_summary(df) ==
    IF ~has(df, "date") THEN Exc("KeyError") ELSE [total_flights |-> Len(df.rows)]

\* the number of requests of an adapter that tries once more
posts_retrying(df, key) == IF key /\ ~IsExc(_prepare_data_summary(df)) THEN 2 ELSE 0

\* the number of requests _get_ai_analysis posts
posts(df, key) == IF key /\ ~IsExc(_prepare_data_summary(df)) THEN 1 ELSE 0

\* the adapter falling back to the mock when the content does not parse
narrative_discarding(mock, prepared, key, reply) ==
    IF ~key THEN mock
    ELSE IF IsExc(prepared) THEN mock
    ELSE IF reply.raises THEN mock
    ELSE IF reply.status = 200
         THEN IF reply.body # "content" THEN mock
              ELSE LET parsed == json_loads(reply.content)
                   IN IF IsExc(parsed) THEN mock ELSE parsed
    ELSE mock

\* the body of _get_ai_analysis: mock is what _get_mock_ai_analysis(data) returns,
\* prepared what _prepare_data_summary(data) returns or raises, and the service
\* answers `reply` if it is asked
narrative(mock, prepared, key, reply) ==
    IF ~key THEN mock
    ELSE IF IsExc(prepared) THEN mock
    ELSE IF reply.raises THEN mock
    ELSE IF reply.status = 200
         THEN IF reply.body # "content" THEN mock
              ELSE LET parsed == json_loads(reply.content)
                   IN IF IsExc(parsed) THEN [analysis |-> reply.content] ELSE parsed
    ELSE mock

\* _get_ai_analysis(data)
_get_ai_analysis(df, key, reply) ==
    narrative(_get_mock_ai_analysis(df), _prepare_data_summary(df), key, reply)

\* the default insights with the recommendations left as a missing value
_get_default_insights_unlisted ==
    [summary |-> [message |-> "No data available for analysis",
                  recommendation |-> "Please fetch flight data to generate insights"],
     price_insights |-> Dict(<<>>),
     demand_insights |-> Dict(<<>>),
     route_insights |-> Dict(<<>>),
     trend_insights |-> Dict(<<>>),
     recommendations |-> None,
     ai_analysis |-> [message |-> "AI analysis requires flight data",
                      recommendation |-> "Fetch data to enable AI-powered insights"]]

_get_default_insights ==
    [summary |-> [message |-> "No data available for analysis",
                  recommendation |-> "Please fetch flight data to generate insights"],
     price_insights |-> Dict(<<>>),
     demand_insights |-> Dict(<<>>),
     route_insights |-> Dict(<<>>),
     trend_insights |-> Dict(<<>>),
     recommendations |-> <<>>,
     ai_analysis |-> [message |-> "AI analysis requires flight data",
                      recommendation |-> "Fetch data to enable AI-powered insights"]]

\* the rule-based sections of generate_insights(data), in the order the code
\* computes them, or the exception the first failing one raises
insight_sections(df) ==
    LET summary == _generate_summary_insights(df)
        route == _generate_route_insights(df)
    IN IF IsExc(summary) THEN summary
       ELSE IF IsExc(route) THEN route
       ELSE [summary |-> summary,
             price_insights |-> _generate_price_insights(df),
             demand_insights |-> _generate_demand_insights(df),
             route_insights |-> route,
             trend_insights |-> _generate_trend_insights(df),
             recommendations |-> _generate_recommendations(df)]

\* generate_insights(data), given its rule-based sections and its narrative
insights_of(df, sections, ai_analysis) ==
    IF empty(df) THEN _get_default_insights
    ELSE IF IsExc(sections) THEN sections
    ELSE [summary |-> sections.summary,
          price_insights |-> sections.price_insights,
          demand_insights |-> sections.demand_insights,
          route_insights |-> sections.route_insights,
          trend_insights |-> sections.trend_insights,
          recommendations |-> sections.recommendations,
          ai_analysis |-> ai_analysis]

\* generate_insights(data): the mapping it returns, or the exception it raises
generate_insights(df, key, reply) ==
    insights_of(df, insight_sections(df), _get_ai_analysis(df, key, reply))

\* the narrative adapter is reached: the table is not empty and no section raised
reaches_narrative(df, sections) == ~empty(df) /\ ~IsExc(sections)

\* the table after generate_insights(data): the trend section adds the week
\* column to the table it is given, when it is reached
table_after(df, sections) == IF reaches_narrative(df, sections) THEN with_week(df) ELSE df

data_after_insights(df) == table_after(df, insight_sections(df))

\* the requests generate_insights sends
requests_after(df, sections, key) ==
    IF reaches_narrative(df, sections) THEN posts(with_week(df), key) ELSE 0

requests_of_insights(df, key) == requests_after(df, insight_sections(df), key)

-----------------------------------------------------------------------------
(* generate_heatmap_insights *)

\* the sum of a sequence of fractions
FracSum(fs) ==
    LET L == LCMSeq(fs)
    IN Frac(SumSeq([i \in 1..Len(fs) |-> fs[i].num * (L \div fs[i].den)]), L)

FracMean(fs) == LET t == FracSum(fs) IN Frac(t.num, t.den * Len(fs))

\* DataFrame.sum() / .mean(): one <<column, aggregate>> per column, over the rows
over_columns(m, Agg(_)) ==
    Tup([j \in 1..Len(m.columns) |->
           <<m.columns[j], Agg(Tup([i \in 1..Len(m.index) |-> m.cells[i][j]]))>>])

\* DataFrame.sum(axis=1) / .mean(axis=1): one <<row, aggregate>> per row
over_rows(m, Agg(_)) ==
    Tup([i \in 1..Len(m.index) |-> <<m.index[i], Agg(m.cells[i])>>])

\* Series.idxmax() / idxmin(): the label of the first largest / smallest value
idxmax(pairs) == sort_desc(pairs, FracGt)[1][1]
idxmin(pairs) == sort_asc(pairs, FracGt)[1][1]
maxval(pairs) == sort_desc(pairs, FracGt)[1][2]
minval(pairs) == sort_asc(pairs, FracGt)[1][2]

day_hour_pivot(df, Val(_), aggfunc) ==
    fillna0(pivot_table(df.rows, Val, LAMBDA r : day_name(r.date),
                        LAMBDA r : dt_hour(r.date), aggfunc, AlphaDays, HoursOfDay))

peak_analysis(df) ==
    LET m == day_hour_pivot(df, LAMBDA r : r.price, "count")
    IN [peak_hour |-> idxmax(over_columns(m, FracSum)),
        peak_day |-> idxmax(over_rows(m, FracSum)),
        quietest_hour |-> idxmin(over_columns(m, FracSum)),
        quietest_day |-> idxmin(over_rows(m, FracSum)),
        peak_flights |-> maxval(over_columns(m, FracSum)),
        quietest_flights |-> minval(over_columns(m, FracSum))]

price_analysis(df) ==
    LET m == day_hour_pivot(df, LAMBDA r : r.price, "mean")
    IN [expensive_hour |-> idxmax(over_columns(m, FracMean)),
        expensive_day |-> idxmax(over_rows(m, FracMean)),
        cheapest_hour |-> idxmin(over_columns(m, FracMean)),
        cheapest_day |-> idxmin(over_rows(m, FracMean)),
        max_avg_price |-> maxval(over_columns(m, FracMean)),
        min_avg_price |-> minval(over_columns(m, FracMean))]

\* DataFrame.stack(): the cells row by row, as <<<<row, column>>, value>>
stack(m) ==
    Tup([n \in 1..(Len(m.index) * Len(m.columns)) |->
           LET i == ((n - 1) \div Len(m.columns)) + 1
               j == ((n - 1) % Len(m.columns)) + 1
           IN << <<m.index[i], m.columns[j]>>, m.cells[i][j] >>])

route_airline_analysis(df) ==
    LET m == fillna0(pivot_table(df.rows, LAMBDA r : r.price, LAMBDA r : r.route,
                                 LAMBDA r : r.airline, "count", AlphaRoutes, AlphaAirlines))
    IN [top_combinations |-> head(sort_desc(stack(m), FracGt), 5),
        total_routes |-> Len(m.index),
        total_airlines |-> Len(m.columns)]

\* weekend_stats.loc[flag, ...] raises KeyError when no record has that flag;
\* the aggregation itself raises KeyError when it names a column the table lacks
weekend_analysis(df) ==
    LET weekday == SelectSeq(df.rows, LAMBDA r : ~r.is_weekend)
        weekend == SelectSeq(df.rows, LAMBDA r : r.is_weekend)
        base == << <<"weekday_flights", Frac(Len(weekday), 1)>>,
                   <<"weekend_flights", Frac(Len(weekend), 1)>>,
                   <<"weekday_avg_price",
                     round2(mean(MapSeq(weekday, LAMBDA r : r.price)))>>,
                   <<"weekend_avg_price",
                     round2(mean(MapSeq(weekend, LAMBDA r : r.price)))>>,
                   <<"weekend_ratio", Frac(Len(weekend), Len(weekday))>> >>
    IN IF ~has(df, "demand_score") THEN Exc("KeyError")
       ELSE IF weekday = <<>> \/ weekend = <<>> THEN Exc("KeyError")
       ELSE Dict(base \o
                 << <<"weekday_demand",
                      round2(mean(MapSeq(weekday, LAMBDA r : r.demand_score)))>>,
                    <<"weekend_demand",
                      round2(mean(MapSeq(weekend, LAMBDA r : r.demand_score)))>> >>)

demand_analysis(df) ==
    IF ~has(df, "date") THEN Exc("KeyError")
    ELSE LET m == day_hour_pivot(df, LAMBDA r : r.demand_score, "mean")
         IN [high_demand_hour |-> idxmax(over_columns(m, FracMean)),
             high_demand_day |-> idxmax(over_rows(m, FracMean)),
             max_demand_score |-> maxval(over_columns(m, FracMean)),
             min_demand_score |-> minval(over_columns(m, FracMean)),
             avg_demand_score |-> mean(Column(df, "demand_score"))]

\* generate_heatmap_insights(data): the mapping it returns, or the exception it raises
generate_heatmap_insights(df) ==
    LET dayHour == has(df, "date") /\ has(df, "hour")
        s1 == IF dayHour THEN << <<"peak_analysis", peak_analysis(df)>>,
                                 <<"price_analysis", price_analysis(df)>> >> ELSE <<>>
        s2 == IF has(df, "route") /\ has(df, "airline")
              THEN << <<"route_airline_analysis", route_airline_analysis(df)>> >> ELSE <<>>
        wk == weekend_analysis(df)
        s3 == IF has(df, "is_weekend") THEN << <<"weekend_analysis", wk>> >> ELSE <<>>
        dm == demand_analysis(df)
        s4 == IF has(df, "demand_score") THEN << <<"demand_analysis", dm>> >> ELSE <<>>
    IN IF empty(df) THEN Dict(<<>>)
       ELSE IF has(df, "is_weekend") /\ IsExc(wk) THEN wk
       ELSE IF has(df, "demand_score") /\ IsExc(dm) THEN dm
       ELSE Dict(s1 \o s2 \o s3 \o s4)

-----------------------------------------------------------------------------
(* The state machine *)

\* convert_numpy_types(obj) of app.py, on the mapping generate_insights or
\* generate_heatmap_insights returns: dicts and lists are walked, a float that
\* is NaN becomes None, every other value is returned as it is.  The floats of
\* the mappings are the values named here; the other leaves are texts and
\* whole numbers.
convert_numpy_types_unconverted(obj) == obj

convert_numpy_types(obj) ==
    LET float(v) == IF IsFracNaN(v) THEN None ELSE v
        floats(pairs) ==
            Tup([i \in 1..Len(pairs) |-> <<pairs[i][1], float(pairs[i][2])>>])
        keyed(pairs, keys) ==
            Tup([i \in 1..Len(pairs) |->
                   IF pairs[i][1] \in keys THEN <<pairs[i][1], float(pairs[i][2])>>
                   ELSE pairs[i]])
        each(d, F(_, _)) ==
            Dict(Tup([i \in 1..Len(d.items) |->
                        <<d.items[i][1], F(d.items[i][1], d.items[i][2])>>]))
        summary(x) ==
            IF "average_price" \in DOMAIN x THEN [x EXCEPT !.average_price = float(@)]
            ELSE x
        price(name, v) == floats(v)
        demand(d) == Dict(keyed(d.items, {"weekend_ratio"}))
        route(name, v) == keyed(v, {"avg_price", "weekend_ratio", "avg_demand_score"})
        trend(name, v) == IF name = "weekly_price_pattern" THEN floats(v) ELSE v
        heatmap(name, v) ==
            IF name = "price_analysis"
            THEN [v EXCEPT !.max_avg_price = float(@), !.min_avg_price = float(@)]
            ELSE IF name = "weekend_analysis" THEN Dict(floats(v.items))
            ELSE IF name = "demand_analysis"
            THEN [v EXCEPT !.max_demand_score = float(@), !.min_demand_score = float(@),
                           !.avg_demand_score = float(@)]
            ELSE v
    IN IF "summary" \in DOMAIN obj
       THEN [obj EXCEPT !.summary = summary(@),
                        !.price_insights = each(@, price),
                        !.demand_insights = demand(@),
                        !.route_insights = each(@, route),
                        !.trend_insights = each(@, trend)]
       ELSE each(obj, heatmap)

NoReply == [raises |-> FALSE, status |-> 0, body |-> "unasked", content |-> None]

Init ==
    /\ openai_api_key \in BOOLEAN
    /\ raw_data \in RawBatches
    /\ processed_data = None
    /\ requests_sent = 0
    /\ last = [op |-> "init", arg |-> None, arg_after |-> None, reply |-> NoReply,
               ret |-> None]

\* the table the caller has in hand: the one process_flight_data or
\* get_sample_data has just returned to it
InHand ==
    IF last.op \in {"process_flight_data", "get_sample_data"} /\ IsTable(last.ret)
    THEN {last.ret} ELSE {}

\* the table in hand is the stored table itself (the same object), so a column
\* added to the one is added to the other
is_stored(df) == IsTable(processed_data) /\ df = processed_data

\* processor.process_flight_data(batch): the batch of the data source, an empty
\* one, or a malformed one
ProcessFlightData ==
    \E batch \in {raw_data, EmptyBatch, MalformedBatch, BadDepartureBatch, BadArrivalBatch} :
        /\ processed_data' = stored_after(batch, processed_data)
        /\ last' = [op |-> "process_flight_data", arg |-> batch, arg_after |-> batch,
                    reply |-> NoReply, ret |-> process_flight_data(batch)]
        /\ UNCHANGED <<openai_api_key, raw_data, requests_sent>>

\* processor.get_sample_data()
GetSampleData ==
    \E t \in get_sample_data(processed_data) :
        /\ last' = [op |-> "get_sample_data", arg |-> processed_data,
                    arg_after |-> processed_data, reply |-> NoReply, ret |-> t]
        /\ UNCHANGED <<openai_api_key, raw_data, processed_data, requests_sent>>

\* insights_gen.generate_insights(data) on the table in hand; the service, if
\* asked, answers `reply`
GenerateInsights ==
    \E df \in InHand :
        LET sections == insight_sections(df)
            mock == _get_mock_ai_analysis(df)
            prepared == _prepare_data_summary(df)
            after == table_after(df, sections)
            requests == requests_after(df, sections, openai_api_key)
        IN \E reply \in (IF requests = 0 THEN {NoReply} ELSE Replies) :
              /\ last' = [op |-> "generate_insights", arg |-> df, arg_after |-> after,
                          reply |-> reply,
                          ret |-> insights_of(df, sections,
                                     narrative(mock, prepared, openai_api_key, reply))]
              /\ processed_data' = IF is_stored(df) THEN after ELSE processed_data
              /\ requests_sent' = requests
              /\ UNCHANGED <<openai_api_key, raw_data>>

\* insights_gen.generate_heatmap_insights(data) on the table in hand
GenerateHeatmapInsights ==
    \E df \in InHand :
        /\ last' = [op |-> "generate_heatmap_insights", arg |-> df, arg_after |-> df,
                    reply |-> NoReply, ret |-> generate_heatmap_insights(df)]
        /\ UNCHANGED <<openai_api_key, raw_data, processed_data, requests_sent>>

\* create_demand_heatmap(sample_data): app.py hands it the table that
\* get_sample_data has returned
CreateDemandHeatmap ==
    /\ last.op = "get_sample_data"
    /\ \E df \in InHand :
        /\ last' = [op |-> "create_demand_heatmap", arg |-> df, arg_after |-> df,
                    reply |-> NoReply, ret |-> create_demand_heatmap(df)]
        /\ UNCHANGED <<openai_api_key, raw_data, processed_data, requests_sent>>

\* the handlers convert the mapping they were returned before they answer with it
\* (fetch_data, test_insights, get_heatmap_insights); a raised exception goes to
\* the handler's except branch instead
ConvertNumpyTypes ==
    /\ last.op \in {"generate_insights", "generate_heatmap_insights"}
    /\ ~IsExc(last.ret)
    /\ last' = [op |-> "convert_numpy_types", arg |-> last.ret, arg_after |-> last.ret,
                reply |-> last.reply, ret |-> convert_numpy_types(last.ret)]
    /\ UNCHANGED <<openai_api_key, raw_data, processed_data, requests_sent>>

Next ==
    \/ ProcessFlightData
    \/ GetSampleData
    \/ GenerateInsights
    \/ GenerateHeatmapInsights
    \/ CreateDemandHeatmap
    \/ ConvertNumpyTypes

Spec == Init /\ [][Next]_vars

-----------------------------------------------------------------------------
(* The data source (data_scraper.py, fetch_flight_data)                      *)

\* data_sources, in the order of the list
data_sources == <<"_fetch_from_aviation_stack", "_fetch_from_sample_api", "_generate_sample_data">>

\* What a call of a source comes to.  "none": it returns None (the request
\* failed or was refused); "empty": an empty list; "list": a list of records;
\* "mapping": a JSON object with members; "number": a JSON number; "raise": it
\* raises.
\* _fetch_from_aviation_stack catches every exception of its own and returns the
\* parsed list or None
AviationOutcomes == {"none", "empty", "list"}
\* _fetch_from_sample_api catches every exception of its own and returns
\* response.json(), whatever JSON value that is, or None
SampleApiOutcomes == {"none", "empty", "list", "mapping", "number"}
\* _generate_sample_data returns a list, empty when date_to is before date_from,
\* and raises on a date that is not of the form %Y-%m-%d
GeneratorOutcomes == {"empty", "list", "raise"}

\* the outcomes of the three sources in one fetch_flight_data call
SourceOutcomes ==
    { <<a, s, g>> : a \in AviationOutcomes, s \in SampleApiOutcomes, g \in GeneratorOutcomes }

\* the value the i-th source hands back
yielded(i, outcome) == [source |-> data_sources[i], value |-> outcome]

\* `data and len(data) > 0`: None and the empty list are falsy, a list or a
\* mapping with members has a positive length, len() of a number raises
\* TypeError, which the loop catches like an exception of the source
accepted(outcome) == outcome \in {"list", "mapping"}

\* the loop over data_sources from the i-th source on, and the call of
\* _generate_sample_data after it; `calls` are the sources called so far
RECURSIVE try_sources(_, _, _)
try_sources(outcomes, i, calls) ==
    IF i > Len(data_sources)
    THEN [calls |-> Append(calls, data_sources[3]),
          ret |-> IF outcomes[3] = "raise" THEN Exc("ValueError")
                  ELSE yielded(3, outcomes[3])]
    ELSE IF accepted(outcomes[i])
    THEN [calls |-> Append(calls, data_sources[i]), ret |-> yielded(i, outcomes[i])]
    ELSE try_sources(outcomes, i + 1, Append(calls, data_sources[i]))

\* fetch_flight_data: the sources it calls, in order, and what it returns or raises
fetch_flight_data(outcomes) == try_sources(outcomes, 1, <<>>)

-----------------------------------------------------------------------------
(* The functions of the insights generator on their own: each applied once   *)
(* to an input drawn from a bounded set                                      *)

\* longest series the trend is computed of
MaxSeries == 4

\* the values of a series: whole prices, and one a tenth above 20
TrendValues == {Frac(10, 1), Frac(20, 1), Frac(30, 1), Frac(40, 1), Frac(201, 10)}

\* every series of up to MaxSeries values
TrendSeries == UNION { { Tup(f) : f \in [1..n -> TrendValues] } : n \in 0..MaxSeries }

\* most records in a batch whose table the recommendations are drawn from
MaxRecBatch == 3

\* the non-empty tables process_flight_data makes of the batches of up to
\* MaxRecBatch pool records in every shape, and the generated samples
RecTables ==
    { t \in { process_flight_data(batch_of(c, ix)) :
                c \in ColumnSets,
                ix \in UNION { IndexSeqs(n, 1) : n \in 1..MaxRecBatch } } :
        IsTable(t) /\ ~empty(t) }
    \cup GeneratedSamples

\* a caller holds a series or a non-empty table, or the sources stand ready to
\* answer a fetch
UnitInit ==
    /\ openai_api_key = FALSE
    /\ raw_data = EmptyBatch
    /\ processed_data = None
    /\ requests_sent = 0
    /\ \/ \E series \in TrendSeries :
             last = [op |-> "series", arg |-> series, arg_after |-> series,
                     reply |-> NoReply, ret |-> None]
       \/ \E df \in RecTables :
             last = [op |-> "table", arg |-> df, arg_after |-> df,
                     reply |-> NoReply, ret |-> None]
       \/ \E outcomes \in SourceOutcomes :
             last = [op |-> "sources", arg |-> outcomes, arg_after |-> outcomes,
                     reply |-> NoReply, ret |-> None]

CalculateTrend ==
    /\ last.op = "series"
    /\ last' = [last EXCEPT !.op = "_calculate_trend", !.ret = _calculate_trend(last.arg)]
    /\ UNCHANGED <<openai_api_key, raw_data, processed_data, requests_sent>>

GenerateRecommendations ==
    /\ last.op = "table"
    /\ last' = [last EXCEPT !.op = "_generate_recommendations",
                            !.ret = _generate_recommendations(last.arg)]
    /\ UNCHANGED <<openai_api_key, raw_data, processed_data, requests_sent>>

\* scraper.fetch_flight_data(origin, destination, date_from, date_to)
FetchFlightData ==
    /\ last.op = "sources"
    /\ last' = [last EXCEPT !.op = "fetch_flight_data", !.ret = fetch_flight_data(last.arg)]
    /\ UNCHANGED <<openai_api_key, raw_data, processed_data, requests_sent>>

UnitNext == CalculateTrend \/ GenerateRecommendations \/ FetchFlightData

UnitSpec == UnitInit /\ [][UnitNext]_vars

-----------------------------------------------------------------------------
(* Properties.  Each is a predicate on the last call: its argument, what it  *)
(* returned or raised, and the reply of the narrative service.               *)

Called(op) == last.op = op

IsMatrix(x) == "cells" \in DOMAIN x

\* a raw record with a price, an airline and a date that parses
ValidRecord(r) == r.price # NaN /\ r.airline # NoneStr /\ r.date # BadDate

\* C1: process_flight_data on a batch of exactly one valid raw record applies no
\* outlier filter: it returns, without raising, a table that contains that record.
C1_SingleRecordKept ==
    (/\ Called("process_flight_data")
     /\ Len(last.arg.rows) = 1
     /\ ValidRecord(last.arg.rows[1]))
    => /\ IsTable(last.ret)
       /\ \E i \in 1..Len(last.ret.rows) :
             last.ret.rows[i].flight_number = last.arg.rows[1].flight_number

NarrativeSections == {"trends", "pricing", "demand", "recommendations", "risks"}

\* C2: with no credential configured, the ai_analysis that generate_insights
\* returns has the five keys trends, pricing, demand, recommendations and risks,
\* for every input table, the empty one included.
C2_FiveSectionsWithoutCredential ==
    (/\ Called("generate_insights")
     /\ ~openai_api_key
     /\ ~IsExc(last.ret))
    => NarrativeSections \subseteq DOMAIN last.ret.ai_analysis

\* the external call failed: it raised, answered another status than 200, or its
\* body is not the expected structure (no JSON, no choices/message/content path,
\* a content that is no text)
CallFailed(reply) ==
    \/ reply.raises
    \/ reply.status # 200
    \/ reply.body # "content"
    \/ ~IsText(reply.content)

SameMapping(x, y) == DOMAIN x = DOMAIN y /\ x = y

\* C3: with a credential configured, every failure of the external call makes
\* the narrative of generate_insights the deterministic mock, and nothing is
\* raised to the caller.
C3_FailedCallGivesMock ==
    (/\ Called("generate_insights")
     /\ openai_api_key
     /\ requests_sent = 1
     /\ CallFailed(last.reply))
    => /\ ~IsExc(last.ret)
       /\ SameMapping(last.ret.ai_analysis, _get_mock_ai_analysis(last.arg))

OptionalColumns == {"date", "hour", "is_weekend", "day_of_week", "demand_score"}

\* C4: for every non-empty table that lacks an optional column, generate_insights
\* and generate_heatmap_insights return a mapping and do not raise.
C4_MissingColumnOmitted ==
    (/\ last.op \in {"generate_insights", "generate_heatmap_insights"}
     /\ ~empty(last.arg)
     /\ OptionalColumns \ last.arg.columns # {})
    => ~IsExc(last.ret)

\* the raw columns the feature derivations read
FeatureSources ==
    {"route", "total_seats", "available_seats", "date", "departure_time", "day_of_week",
     "hour"}

\* C5: when a source column of a feature derivation is absent from the raw
\* records, process_flight_data skips that derivation and still returns the
\* enriched table; the absence is never fatal.
C5_AbsentSourceSkipped ==
    (/\ Called("process_flight_data")
     /\ last.arg.rows # <<>>
     /\ {"price", "airline"} \subseteq last.arg.columns
     /\ FeatureSources \ last.arg.columns # {}
     /\ \A c \in {"date", "departure_time", "arrival_time"} : ~unparseable(last.arg, c))
    => /\ IsTable(last.ret)
       /\ "price_category" \in last.ret.columns

\* C6: the mapping create_demand_heatmap returns has the keys default, options
\* and available_views, and available_views lists exactly the views in options.
C6_ViewsNamed ==
    Called("create_demand_heatmap")
    => /\ {"default", "options", "available_views"} \subseteq DOMAIN last.ret
       /\ Range(last.ret.available_views) = Keys(last.ret.options)
       /\ Len(last.ret.available_views) = Len(last.ret.options.items)

\* the count a count matrix holds for the labels (rk, ck): a label the matrix
\* does not have counts nothing
CountAt(m, rk, ck) ==
    IF rk \in Range(m.index) /\ ck \in Range(m.columns) THEN cell(m, rk, ck).num ELSE 0

\* C7: for every table with is_weekend and hour columns the weekend view has
\* the rows Weekday, Weekend in that order, holding the per-hour counts of the
\* records with is_weekend false and true; also when one class has no record.
C7_WeekendRows ==
    (/\ Called("create_demand_heatmap")
     /\ has(last.arg, "is_weekend")
     /\ has(last.arg, "hour"))
    => /\ "options" \in DOMAIN last.ret
       /\ "weekend_analysis" \in Keys(last.ret.options)
       /\ LET w == Get(last.ret.options, "weekend_analysis")
          IN /\ w.index = WeekendLabels
             /\ \A h \in Range(HoursOfDay) :
                   /\ CountAt(w, "Weekday", h) =
                        Count(last.arg.rows, LAMBDA r : ~r.is_weekend /\ r.hour = h)
                   /\ CountAt(w, "Weekend", h) =
                        Count(last.arg.rows, LAMBDA r : r.is_weekend /\ r.hour = h)

\* Monday..Sunday restricted to the day names that occur in the table
DaysInData(df) ==
    SelectSeq(DayNames, LAMBDA d : \E i \in 1..Len(df.rows) : df.rows[i].day_of_week = d)

DayRowViews == {"flight_count", "price_heatmap", "demand_score"}

\* the day axes of the views in options are those of DaysInData
OptionAxesOrdered(df, options) ==
    \A i \in 1..Len(options.items) :
        LET name == options.items[i][1]
            m == options.items[i][2]
        IN /\ name \in DayRowViews => m.index = DaysInData(df)
           /\ name = "route_day_price" => m.columns = DaysInData(df)

\* C8: in every heatmap view with a day-of-week axis, the axis is the
\* subsequence of Monday..Sunday made of exactly the days that occur in the data.
C8_DayAxisOrdered ==
    Called("create_demand_heatmap")
    => /\ "options" \in DOMAIN last.ret => OptionAxesOrdered(last.arg, last.ret.options)
       /\ IsMatrix(last.ret.default) => last.ret.default.index = DaysInData(last.arg)

\* the record r falls in the cell (rk, ck) of the view `name`, by the keys the
\* view is pivoted on
InCell(name, r, rk, ck) ==
    CASE name \in DayRowViews -> day_name(r.date) = rk /\ dt_hour(r.date) = ck
      [] name = "route_airline" -> r.route = rk /\ r.airline = ck
      [] name = "route_day_price" -> r.route = rk /\ day_name(r.date) = ck
      [] name = "weekend_analysis" -> r.is_weekend = (rk = "Weekend") /\ r.hour = ck

\* the cell (i, j) of the view has no record
NoRecord(df, name, m, i, j) ==
    \A n \in 1..Len(df.rows) : ~InCell(name, df.rows[n], m.index[i], m.columns[j])

\* no cell of the matrix is a missing marker, and a cell without record holds 0
ZeroFilled(df, name, m) ==
    \A i \in 1..Len(m.index) : \A j \in 1..Len(m.columns) :
        /\ ~IsFracNaN(m.cells[i][j])
        /\ NoRecord(df, name, m, i, j) => m.cells[i][j] = FracZero

\* C9: in every pivoted view, a cell whose (row key, column key) pair matches
\* no record holds exactly 0; no cell of a produced matrix is a missing marker.
C9_ZeroFill ==
    Called("create_demand_heatmap")
    => /\ IsMatrix(last.ret.default) => ZeroFilled(last.arg, "flight_count", last.ret.default)
       /\ "options" \in DOMAIN last.ret =>
             \A i \in 1..Len(last.ret.options.items) :
                 ZeroFilled(last.arg, last.ret.options.items[i][1],
                            last.ret.options.items[i][2])

\* C9 happens: a produced view has a cell that no record falls in, and it holds 0
C9_Witness ==
    /\ Called("create_demand_heatmap")
    /\ "options" \in DOMAIN last.ret
    /\ \E v \in 1..Len(last.ret.options.items) :
          LET name == last.ret.options.items[v][1]
              m == last.ret.options.items[v][2]
          IN \E i \in 1..Len(m.index) : \E j \in 1..Len(m.columns) :
                NoRecord(last.arg, name, m, i, j) /\ m.cells[i][j] = FracZero

\* C10: in the flight-count view, the cell of day d and hour h is the number of
\* records whose day_of_week is d and whose hour field is h.
C10_CountByDayAndHour ==
    (/\ Called("create_demand_heatmap")
     /\ "options" \in DOMAIN last.ret
     /\ "flight_count" \in Keys(last.ret.options))
    => \A d \in Range(DayNames) : \A h \in Range(HoursOfDay) :
          CountAt(Get(last.ret.options, "flight_count"), d, h) =
             Count(last.arg.rows, LAMBDA r : r.day_of_week = d /\ r.hour = h)

\* the returned row `row` is the record `rec` of a batch with the columns `cols`:
\* it has the record's value in every column of the batch, but for a price or an
\* airline the record came without
StemsFrom(row, rec, cols) ==
    \A c \in cols :
        \/ row[c] = rec[c]
        \/ c = "price" /\ rec.price = NaN
        \/ c = "airline" /\ rec.airline = NoneStr

\* every row of `rows` stems from a record of `batch`
RowsStemFrom(rows, batch) ==
    \A k \in 1..Len(rows) :
        \E i \in 1..Len(batch.rows) : StemsFrom(rows[k], batch.rows[i], batch.columns)

\* C11: for every non-empty raw batch, the table process_flight_data returns has
\* at most as many rows as the batch has records, and every returned row stems
\* from a record of the batch.
C11_RowsStemFromBatch ==
    (/\ Called("process_flight_data")
     /\ last.arg.rows # <<>>
     /\ IsTable(last.ret))
    => /\ Len(last.ret.rows) <= Len(last.arg.rows)
       /\ RowsStemFrom(last.ret.rows, last.arg)

\* a batch of two records, one of them without price and airline, of which both
\* rows are returned
C11_Witness ==
    /\ Called("process_flight_data")
    /\ Len(last.arg.rows) = 2
    /\ IsTable(last.ret)
    /\ Len(last.ret.rows) = 2
    /\ \E i \in 1..2 : last.arg.rows[i].price = NaN

\* the prices of the deduplicated batch once the missing ones are filled with
\* the median of the known ones
FilledPrices(recs) ==
    LET med == median([i \in 1..Len(recs) |-> recs[i].price])
    IN Tup([i \in 1..Len(recs) |-> IF recs[i].price = NaN THEN med ELSE recs[i].price])

\* n times the deviation of p from the mean of xs
Deviation(p, xs) == Len(xs) * p - SumSeq(xs)

SquaredDeviations(xs) ==
    SumSeq([i \in 1..Len(xs) |-> Deviation(xs[i], xs) * Deviation(xs[i], xs)])

\* mean and stddev of xs exist: two prices or more, all of them known
BandDefined(xs) == Len(xs) >= 2 /\ \A i \in 1..Len(xs) : xs[i] # NaN

\* |p - mean| <= 3 stddev, stddev^2 = sum of (x - mean)^2 / (n - 1): both sides
\* multiplied by n^2 (n - 1)
InsideBand(p, xs) ==
    (Len(xs) - 1) * Deviation(p, xs) * Deviation(p, xs) <= 9 * SquaredDeviations(xs)

Returned(rec) ==
    \E i \in 1..Len(last.ret.rows) : last.ret.rows[i].flight_number = rec.flight_number

\* C12: for a batch of two or more records, a record whose price lies outside
\* mean +/- 3 stddev is absent from the enriched table and every record whose
\* price lies inside it is kept, mean and stddev being those of the deduplicated
\* batch after the missing prices are filled.
C12_OutlierFilter ==
    (/\ Called("process_flight_data")
     /\ Len(last.arg.rows) >= 2
     /\ IsTable(last.ret))
    => LET recs == drop_duplicates(last.arg.rows)
           prices == FilledPrices(recs)
       IN BandDefined(prices)
          => \A k \in 1..Len(recs) :
                Returned(recs[k]) <=> InsideBand(prices[k], prices)

\* the batch with the extreme fare has been processed: the extreme fare lies
\* outside the band, the others inside
C12_Witness ==
    /\ Called("process_flight_data")
    /\ IsTable(last.ret)
    /\ LET recs == drop_duplicates(last.arg.rows)
           prices == FilledPrices(recs)
       IN /\ BandDefined(prices)
          /\ \E k \in 1..Len(recs) : ~InsideBand(prices[k], prices) /\ ~Returned(recs[k])
          /\ \E k \in 1..Len(recs) : InsideBand(prices[k], prices) /\ Returned(recs[k])

\* the known prices of the records
KnownPrices(recs) ==
    SelectSeq([i \in 1..Len(recs) |-> recs[i].price], LAMBDA x : x # NaN)

\* the k-th smallest of xs
KthSmallest(xs, k) ==
    CHOOSE v \in Range(xs) :
        /\ Cardinality({i \in 1..Len(xs) : xs[i] < v}) < k
        /\ Cardinality({i \in 1..Len(xs) : xs[i] <= v}) >= k

\* the median of the known prices: the middle one, or the mean of the two middle
\* ones; undefined (NaN) when no price is known
MedianOfKnown(recs) ==
    LET xs == KnownPrices(recs)
        n == Len(xs)
    IN IF n = 0 THEN NaN
       ELSE (KthSmallest(xs, (n + 1) \div 2) + KthSmallest(xs, (n + 2) \div 2)) \div 2

NoNullPriceOrAirline ==
    \A j \in 1..Len(last.ret.rows) :
        last.ret.rows[j].price # NaN /\ last.ret.rows[j].airline # NoneStr

\* the returned row of a record received without a price has the price med, the
\* returned row of a record received without an airline has the airline Unknown
FilledWith(med) ==
    \A i \in 1..Len(last.arg.rows), j \in 1..Len(last.ret.rows) :
        LET rec == last.arg.rows[i]
            row == last.ret.rows[j]
        IN row.flight_number = rec.flight_number
           => /\ rec.price = NaN => row.price = med
              /\ rec.airline = NoneStr => row.airline = "Unknown"

\* C13 as stated: in every table process_flight_data returns no row has a null
\* price or a null airline; a record received without a price carries the median
\* of the known prices of the batch as received, and a record received without
\* an airline carries the airline Unknown.
C13_FilledWithBatchMedian ==
    (Called("process_flight_data") /\ IsTable(last.ret))
    => /\ NoNullPriceOrAirline
       /\ FilledWith(MedianOfKnown(last.arg.rows))

\* C13 as amended: the same, the median being that of the known prices of the
\* batch once its exact duplicates are removed.
C13_FilledWithDeduplicatedMedian ==
    (Called("process_flight_data") /\ IsTable(last.ret))
    => /\ NoNullPriceOrAirline
       /\ FilledWith(MedianOfKnown(drop_duplicates(last.arg.rows)))

\* a record received without price and airline is returned, from a batch in
\* which another record occurs twice
C13_Witness ==
    /\ Called("process_flight_data")
    /\ IsTable(last.ret)
    /\ \E i \in 1..Len(last.arg.rows) :
          /\ last.arg.rows[i].price = NaN
          /\ last.arg.rows[i].airline = NoneStr
          /\ Returned(last.arg.rows[i])
    /\ Len(drop_duplicates(last.arg.rows)) < Len(last.arg.rows)

\* C14: process_flight_data on an empty sequence of raw records returns an empty
\* table and raises no error.
C14_EmptyBatchGivesEmptyTable ==
    (Called("process_flight_data") /\ last.arg.rows = <<>>)
    => /\ ~IsExc(last.ret)
       /\ IsTable(last.ret)
       /\ empty(last.ret)
       /\ Len(last.ret.rows) = 0

\* the empty batch has been processed
C14_Witness ==
    /\ Called("process_flight_data")
    /\ last.arg = EmptyBatch
    /\ last.ret = EmptyDataFrame

\* ten times the values of a series of TrendValues (whole numbers)
TenTimes(series) == Tup([i \in 1..Len(series) |-> (10 * series[i].num) \div series[i].den])

\* with x the positions 0, 1, 2, ... and y the values, n^2 times the covariance
\* sum of x and 10 y, and n^2 times the variance sum of x: the least-squares
\* slope s is Covariance / (10 * Variance)
Covariance(series) ==
    LET n == Len(series)
        y == TenTimes(series)
        xsum == (n * (n - 1)) \div 2
    IN SumSeq([i \in 1..n |-> (n * (i - 1) - xsum) * (n * y[i] - SumSeq(y))])

Variance(series) ==
    LET n == Len(series)
        xsum == (n * (n - 1)) \div 2
    IN SumSeq([i \in 1..n |-> (n * (i - 1) - xsum) * (n * (i - 1) - xsum)])

\* s > 0.1 and s < -0.1
SlopeAboveTenth(series) == Covariance(series) > Variance(series)
SlopeBelowMinusTenth(series) == Covariance(series) < -Variance(series)

TrendExamples ==
    << <<"increasing", <<Frac(10, 1), Frac(20, 1), Frac(30, 1), Frac(40, 1)>> >>,
       <<"decreasing", <<Frac(40, 1), Frac(30, 1), Frac(20, 1), Frac(10, 1)>> >>,
       <<"stable", <<Frac(20, 1), Frac(20, 1), Frac(20, 1), Frac(20, 1)>> >> >>

\* C15: _calculate_trend returns insufficient_data exactly when the series has
\* fewer than 2 points; otherwise, with s the least-squares slope of the values
\* against the positions 0, 1, 2, ..., it returns increasing if s > 0.1,
\* decreasing if s < -0.1 and stable otherwise; [10,20,30,40] is increasing,
\* [40,30,20,10] decreasing and [20,20,20,20] stable.
C15_TrendBySlope ==
    Called("_calculate_trend")
    => /\ (last.ret = "insufficient_data") <=> (Len(last.arg) < 2)
       /\ Len(last.arg) >= 2
          => last.ret = IF SlopeAboveTenth(last.arg) THEN "increasing"
                        ELSE IF SlopeBelowMinusTenth(last.arg) THEN "decreasing"
                        ELSE "stable"
       /\ \A e \in 1..Len(TrendExamples) :
             last.arg = TrendExamples[e][2] => last.ret = TrendExamples[e][1]

\* a series with a slope of exactly 0.1 has been classified
C15_Witness ==
    /\ Called("_calculate_trend")
    /\ Len(last.arg) >= 2
    /\ Covariance(last.arg) = Variance(last.arg)
    /\ last.ret = "stable"

\* the table the recommendations were drawn from, and the list drawn
RecRows == last.arg.rows
RecList == last.ret

EntriesOfType(t) == {i \in 1..Len(RecList) : RecList[i].type = t}

\* the sum and the number of the prices of the rows with r[col] = key
GroupSum(col, key) ==
    SumSeq([i \in 1..Len(RecRows) |-> IF RecRows[i][col] = key THEN RecRows[i].price ELSE 0])
GroupSize(col, key) == Cardinality({i \in 1..Len(RecRows) : RecRows[i][col] = key})

\* mean price of group a <= mean price of group b
MeanAtMost(col, a, b) ==
    GroupSum(col, a) * GroupSize(col, b) <= GroupSum(col, b) * GroupSize(col, a)

TotalPrice == SumSeq([i \in 1..Len(RecRows) |-> RecRows[i].price])

\* C16: for every non-empty table, the recommendation list contains exactly one
\* price-alert entry (type price) when the mean price exceeds 400 and none
\* otherwise; a table with mean price 500 has exactly one.
C16_PriceAlert ==
    Called("_generate_recommendations")
    => /\ Cardinality(EntriesOfType("price"))
             = (IF TotalPrice > 400 * Len(RecRows) THEN 1 ELSE 0)
       /\ TotalPrice = 500 * Len(RecRows) => Cardinality(EntriesOfType("price")) = 1

\* the recommendations of a table with mean price 500
C16_Witness ==
    /\ Called("_generate_recommendations")
    /\ TotalPrice = 500 * Len(RecRows)
    /\ Cardinality(EntriesOfType("price")) = 1

\* the recommendations of a table with mean price 400
C16_AtThreshold ==
    /\ Called("_generate_recommendations")
    /\ TotalPrice = 400 * Len(RecRows)
    /\ Cardinality(EntriesOfType("price")) = 0

\* the records with is_weekend true
WeekendRows ==
    {i \in 1..Len(RecRows) : has(last.arg, "is_weekend") /\ RecRows[i].is_weekend}

\* C17: for every non-empty table, the recommendation list contains a
\* weekend-dominance entry (type demand) exactly when the share of records with
\* is_weekend true exceeds 60%; a table with no weekend flights has none.
C17_WeekendDominance ==
    Called("_generate_recommendations")
    => /\ (EntriesOfType("demand") # {})
             <=> (10 * Cardinality(WeekendRows) > 6 * Len(RecRows))
       /\ WeekendRows = {} => EntriesOfType("demand") = {}

\* two weekend flights among three: the entry is there
C17_Witness ==
    /\ Called("_generate_recommendations")
    /\ Cardinality(WeekendRows) = 2
    /\ Len(RecRows) = 3
    /\ EntriesOfType("demand") # {}

AirlinesOfTable == {RecRows[i].airline : i \in 1..Len(RecRows)}

\* C18: for every non-empty table, the recommendation list contains exactly one
\* best-value airline entry (type airline), and the airline it names has a mean
\* price no higher than the mean price of any other airline in the table.
C18_BestValueAirline ==
    Called("_generate_recommendations")
    => /\ Cardinality(EntriesOfType("airline")) = 1
       /\ \A i \in EntriesOfType("airline") :
             /\ RecList[i].subject \in AirlinesOfTable
             /\ \A b \in AirlinesOfTable : MeanAtMost("airline", RecList[i].subject, b)

\* a table of two airlines or more with different mean prices
C18_Witness ==
    /\ Called("_generate_recommendations")
    /\ \E i \in EntriesOfType("airline") :
          \E b \in AirlinesOfTable : ~MeanAtMost("airline", b, RecList[i].subject)

RoutesOfTable == {RecRows[i].route : i \in 1..Len(RecRows)}

\* the routes that have an entry
RoutesNamed == {RecList[i].subject : i \in EntriesOfType("route")}

\* C19: for every non-empty table with k distinct routes, the recommendation
\* list contains exactly min(2, k) route entries, one for each of the routes
\* with the highest mean price, and no route left without an entry has a higher
\* mean price than a route that has one.
C19_ExpensiveRoutes ==
    Called("_generate_recommendations")
    => LET k == Cardinality(RoutesOfTable)
       IN /\ Cardinality(EntriesOfType("route")) = (IF k < 2 THEN k ELSE 2)
          /\ Cardinality(RoutesNamed) = Cardinality(EntriesOfType("route"))
          /\ RoutesNamed \subseteq RoutesOfTable
          /\ \A other \in RoutesOfTable \ RoutesNamed :
                \A named \in RoutesNamed : MeanAtMost("route", other, named)

\* a table of three routes: two have an entry and the third is cheaper than one
\* of them
C19_Witness ==
    /\ Called("_generate_recommendations")
    /\ Cardinality(RoutesOfTable) = 3
    /\ Cardinality(RoutesNamed) = 2
    /\ \E other \in RoutesOfTable \ RoutesNamed :
          \E named \in RoutesNamed : ~MeanAtMost("route", named, other)

InsightKeys ==
    {"summary", "price_insights", "demand_insights", "route_insights", "trend_insights",
     "recommendations", "ai_analysis"}

\* C20: generate_insights on an empty table returns, without raising and without
\* calling the external service, the fixed sentinel: a mapping with exactly the
\* keys summary, price_insights, demand_insights, route_insights, trend_insights,
\* recommendations and ai_analysis, whose recommendations value is the empty list.
C20_EmptyTableGivesSentinel ==
    (Called("generate_insights") /\ empty(last.arg))
    => /\ ~IsExc(last.ret)
       /\ DOMAIN last.ret = InsightKeys
       /\ last.ret.recommendations = <<>>
       /\ requests_sent = 0
       /\ last.reply = NoReply
       /\ \A df \in {EmptyDataFrame, last.arg} :
             \A key \in BOOLEAN : generate_insights(df, key, NoReply) = last.ret

\* with a credential configured, generate_insights has been given a table that
\* has columns and no rows
C20_Witness ==
    /\ Called("generate_insights")
    /\ openai_api_key
    /\ last.arg.columns # {}
    /\ last.arg.rows = <<>>
    /\ last.ret.recommendations = <<>>

\* a float that is not a number
IsNaNLeaf(v) == "den" \in DOMAIN v /\ v.den = 0

\* the values of a sequence of <<key, value>>
ValuesOf(pairs) == Tup([i \in 1..Len(pairs) |-> pairs[i][2]])

\* the values of the pairs whose key is in keys
ValuesAt(pairs, keys) == ValuesOf(SelectSeq(pairs, LAMBDA p : p[1] \in keys))

RECURSIVE Flatten(_)
Flatten(ss) == IF ss = <<>> THEN <<>> ELSE Head(ss) \o Flatten(Tail(ss))

\* the floating-point values of an insights mapping, in a fixed order
InsightFloats(m) ==
    (IF "average_price" \in DOMAIN m.summary THEN <<m.summary.average_price>> ELSE <<>>)
    \o Flatten([i \in 1..Len(m.price_insights.items) |->
                   ValuesOf(m.price_insights.items[i][2])])
    \o ValuesAt(m.demand_insights.items, {"weekend_ratio"})
    \o Flatten([i \in 1..Len(m.route_insights.items) |->
                   ValuesAt(m.route_insights.items[i][2],
                            {"avg_price", "weekend_ratio", "avg_demand_score"})])
    \o Flatten([i \in 1..Len(m.trend_insights.items) |->
                   IF m.trend_insights.items[i][1] = "weekly_price_pattern"
                   THEN ValuesOf(m.trend_insights.items[i][2]) ELSE <<>>])

\* the floating-point values of a heatmap-insights mapping
HeatmapFloats(m) ==
    Flatten([i \in 1..Len(m.items) |->
        LET name == m.items[i][1]
            v == m.items[i][2]
        IN IF name = "price_analysis" THEN <<v.max_avg_price, v.min_avg_price>>
           ELSE IF name = "weekend_analysis" THEN ValuesOf(v.items)
           ELSE IF name = "demand_analysis"
           THEN <<v.max_demand_score, v.min_demand_score, v.avg_demand_score>>
           ELSE <<>>])

FloatsOf(m) == IF "summary" \in DOMAIN m THEN InsightFloats(m) ELSE HeatmapFloats(m)

\* C21: no value of the insights mapping that crosses the output boundary is a
\* NaN: every not-a-number aggregate (the price standard deviation of a route
\* with a single flight, for example) appears as the explicit null marker, and
\* every other value as it was.
C21_NoNaNCrossesBoundary ==
    Called("convert_numpy_types")
    => LET before == FloatsOf(last.arg)
           after == FloatsOf(last.ret)
       IN /\ Len(after) = Len(before)
          /\ \A i \in 1..Len(after) :
                /\ ~IsNaNLeaf(after[i])
                /\ after[i] = (IF IsNaNLeaf(before[i]) THEN None ELSE before[i])

\* an insights mapping that holds a NaN (the volatility of a route with one
\* flight) has been converted
C21_Witness ==
    /\ Called("convert_numpy_types")
    /\ \E i \in 1..Len(FloatsOf(last.arg)) :
          /\ IsNaNLeaf(FloatsOf(last.arg)[i])
          /\ FloatsOf(last.ret)[i] = None

\* the service answered 200 with a text that is not JSON
AnsweredUnparseableText(reply) ==
    /\ ~reply.raises
    /\ reply.status = 200
    /\ reply.body = "content"
    /\ IsText(reply.content)
    /\ \A i \in 1..Len(JsonValues) : JsonValues[i][1] # reply.content.text

\* C22: when the external service answers with status 200 and a text that cannot
\* be parsed as structured data, _get_ai_analysis returns a mapping with the
\* single key analysis holding that raw text unchanged; the text is neither
\* discarded nor replaced by the mock narrative.
C22_RawTextKept ==
    (/\ Called("generate_insights")
     /\ requests_sent = 1
     /\ AnsweredUnparseableText(last.reply))
    => /\ ~IsExc(last.ret)
       /\ DOMAIN last.ret.ai_analysis = {"analysis"}
       /\ last.ret.ai_analysis.analysis = last.reply.content
       /\ DOMAIN last.ret.ai_analysis # DOMAIN _get_mock_ai_analysis(last.arg)

\* a prose answer has been received and wrapped
C22_Witness ==
    /\ Called("generate_insights")
    /\ requests_sent = 1
    /\ AnsweredUnparseableText(last.reply)
    /\ last.ret.ai_analysis = [analysis |-> Text("Prices are stable; demand peaks on weekends.")]

\* the request raised (a timeout among others) or was answered with an error status
RequestFailed(reply) == reply.raises \/ (reply.body # "unasked" /\ reply.status # 200)

\* C23: in one generate_insights invocation at most one request is sent to the
\* external narrative service: after a failed or timed-out request the adapter
\* falls back to the mock and sends no second request, and no request at all is
\* sent when no credential is configured.
C23_AtMostOneRequest ==
    Called("generate_insights")
    => /\ requests_sent <= 1
       /\ ~openai_api_key => requests_sent = 0 /\ last.reply = NoReply
       /\ (requests_sent >= 1 /\ RequestFailed(last.reply))
          => /\ requests_sent = 1
             /\ ~IsExc(last.ret)
             /\ SameMapping(last.ret.ai_analysis, _get_mock_ai_analysis(last.arg))

\* the one request of an invocation has timed out and the mock is returned
C23_Witness ==
    /\ Called("generate_insights")
    /\ openai_api_key
    /\ requests_sent = 1
    /\ last.reply.raises
    /\ SameMapping(last.ret.ai_analysis, _get_mock_ai_analysis(last.arg))

\* the band of a price as the claim fixes it: lower edge included
PriceBand(p) ==
    IF p < 200 THEN "Budget"
    ELSE IF p < 400 THEN "Economy"
    ELSE IF p < 600 THEN "Premium"
    ELSE "Luxury"

\* C24: every enriched record gets price_category by the fixed bands: Budget when
\* price < 200, Economy when 200 <= price < 400, Premium when 400 <= price < 600,
\* Luxury when 600 <= price <= 1000; a price of exactly 200 is Economy, not Budget.
C24_PriceBands ==
    (Called("process_flight_data") /\ IsTable(last.ret))
    => \A i \in 1..Len(last.ret.rows) :
          LET row == last.ret.rows[i]
          IN (row.price >= 0 /\ row.price <= 1000)
             => row.price_category = PriceBand(row.price)

\* the occupancy rate lies in the band of the level, either edge allowed
InDemandBand(occ, level) ==
    LET lo == CHOOSE k \in 1..Len(DemandLabels) : DemandLabels[k] = level
        edges == <<Frac(0, 1), Frac(5, 10), Frac(7, 10), Frac(9, 10), Frac(1, 1)>>
    IN ~FracLt(occ, edges[lo]) /\ ~FracGt(occ, edges[lo + 1])

\* C25: every enriched record with total and available seat counts
\* (0 <= available <= total, total > 0) gets occupancy_rate = (total -
\* available) / total and a demand_level that is one of Low, Medium, High, Very
\* High fixed by the thresholds 0.5, 0.7 and 0.9; none is left without a demand
\* level, one with occupancy 0 included.
C25_DemandLevel ==
    (/\ Called("process_flight_data")
     /\ IsTable(last.ret)
     /\ {"total_seats", "available_seats"} \subseteq last.arg.columns)
    => \A i \in 1..Len(last.ret.rows) :
          LET row == last.ret.rows[i]
          IN (row.total_seats > 0 /\ row.available_seats >= 0
                /\ row.available_seats <= row.total_seats)
             => /\ FracEq(row.occupancy_rate,
                          Frac(row.total_seats - row.available_seats, row.total_seats))
                /\ row.demand_level \in Range(DemandLabels)
                /\ InDemandBand(row.occupancy_rate, row.demand_level)

\* the raw batch has a record whose value in the column col is no date
CarriesUnparsed(batch, col) ==
    col \in batch.columns /\ \E i \in 1..Len(batch.rows) : batch.rows[i][col] = BadDate

HasUnparsedRecord(batch) ==
    \E col \in {"date", "departure_time", "arrival_time"} : CarriesUnparsed(batch, col)

\* C26: when a raw record carries a date, departure time or arrival time that
\* cannot be parsed, process_flight_data raises an error to its caller: it
\* returns no table at all.
C26_UnparsedRaises ==
    (Called("process_flight_data") /\ HasUnparsedRecord(last.arg))
    => (IsExc(last.ret) /\ ~IsTable(last.ret))

\* a batch of two records, one of them with a departure time that does not
\* parse and a date that does, has raised
C26_Witness ==
    /\ Called("process_flight_data")
    /\ Len(last.arg.rows) = 2
    /\ CarriesUnparsed(last.arg, "departure_time")
    /\ ~CarriesUnparsed(last.arg, "date")
    /\ IsExc(last.ret)

\* C27: after a process_flight_data call that returns, the stored last-processed
\* table is the table that call returned, the call on an empty batch included;
\* get_sample_data therefore never returns the table of an earlier ingestion.
C27_StoredIsLatest ==
    (Called("process_flight_data") /\ IsTable(last.ret)) => processed_data = last.ret

\* C28: generate_insights leaves the table it is given unchanged: after the call
\* the table has the same set of columns and the same rows as before the call.
C28_TableUnchanged ==
    Called("generate_insights")
    => /\ last.arg_after.columns = last.arg.columns
       /\ last.arg_after.rows = last.arg.rows

\* the step is a process_flight_data call that raises
RaisingIngest == last'.op = "process_flight_data" /\ IsExc(last'.ret)

\* C29: a process_flight_data call that raises leaves the stored last-processed
\* table exactly as it was before the call, so that get_sample_data returns after
\* the call what it would have returned before it.
C29_RaiseKeepsStored ==
    [][RaisingIngest => /\ processed_data' = processed_data
                        /\ returns_stored(processed_data') = returns_stored(processed_data)]_vars

\* a call has raised while a non-empty table of an earlier ingestion is stored
C29_Witness ==
    /\ Called("process_flight_data")
    /\ IsExc(last.ret)
    /\ IsTable(processed_data)
    /\ Len(processed_data.rows) > 0

\* the sources before the i-th did not yield a non-empty list
NoListBefore(outcomes, i) == \A j \in 1..(i - 1) : outcomes[j] # "list"

\* C30: fetch_flight_data tries its sources in the order aviation-stack, sample
\* API, generated sample data, and returns the result of the first source that
\* yields a non-empty list: the sources before it have been called, in that
\* order, none after it has.
C30_FirstNonEmptyList ==
    Called("fetch_flight_data")
    => \A i \in 1..Len(data_sources) :
          (last.arg[i] = "list" /\ NoListBefore(last.arg, i))
          => /\ last.ret.ret = [source |-> data_sources[i], value |-> "list"]
             /\ last.ret.calls = SubSeq(data_sources, 1, i)

====
